---- MODULE Spec2Model ----
(***************************************************************************)
(* A model of score-db (noaa-psd/score-db): the request handlers for the   *)
(* regions and experiments tables, the filter / ordering builders, the     *)
(* experiment-metric de-duplication and the request dispatcher.            *)
(*                                                                         *)
(* Python values are modelled as follows.                                  *)
(*   - A dict is a TLA+ function whose domain is the set of its keys.      *)
(*     A value that may be None is a tuple: PyNone (the empty tuple) for   *)
(*     None and Some(v) for v, so d.get(k) is Get(d, k) and Val unwraps.   *)
(*   - A call either returns or raises: Ok(v) / Raise(exc), where exc is   *)
(*     the name of the exception class.                                    *)
(*   - A datetime is a natural number; a date string is a record of the    *)
(*     layout it is written in and the instant it denotes.                 *)
(*   - A latitude is an integer number of degrees, standing for the float  *)
(*     with that value; FloatStr is Python's str() of such a float.        *)
(***************************************************************************)
EXTENDS Integers, Sequences, FiniteSets, TLC

VARIABLES
    regions,      \* the regions table: a set of rows
    experiments,  \* the experiments table: a set of rows
    clock,        \* datetime.utcnow(), advanced by every request
    last,         \* the outcome of the latest request (what its caller sees)
    regionPuts,   \* history: hash_val -> number of successful PUTs holding it
    exptLog,      \* history: experiment key -> actions reported by its PUTs
    metric_types, \* the metric_types table: a set of rows
    expt_metrics, \* the expt_metrics table: a set of rows
    sessions,     \* the open database session of every concurrent caller
    harvest,      \* the harvest run: its date range, its files, where it is
    arg,          \* the input of a pure function under test
    ret           \* its result

vars ==
    <<regions, experiments, clock, last, regionPuts, exptLog, metric_types,
      expt_metrics, sessions, harvest, arg, ret>>

(***************************************************************************)
(* Bounds of the model.                                                    *)
(***************************************************************************)
MaxRequests == 3
MaxTime == 3
\* The callers that run requests at the same time.
MaxCallers == 2
\* The longest list handed to a validation function on its own.
MaxList == 2
\* The longest date range of a harvest, in steps of the cycle clock.
MaxCycles == 2

(***************************************************************************)
(* Python helpers.                                                         *)
(***************************************************************************)
PyNone == <<>>

Some(v) == <<v>>

Val(o) == o[1]

Ok(v) == [raised |-> FALSE, exc |-> "", value |-> v]

Raise(e) == [raised |-> TRUE, exc |-> e, value |-> PyNone]

\* x = e; then the statements K that read x.
Let(e, K(_)) == K(e)

\* The call r either raised, which ends the caller too, or returned a value
\* the caller goes on with in K.
Bind(r, K(_)) == IF r.raised THEN r ELSE K(r.value)

Get(d, k) == IF k \in DOMAIN d THEN Some(d[k]) ELSE PyNone

\* All dicts with keys among K and values in V.
Dicts(K, V) == UNION {[S -> V] : S \in SUBSET K}

\* All sequences over S of length at most two.
ListsUpTo2(S) == {<<>>} \cup {<<a>> : a \in S} \cup {<<a, b>> : a \in S, b \in S}

\* A Python value with its type, where the code tests the type: a str, an
\* int, a list of such values, a dict.
PyStr(v) == [type |-> "str", v |-> v]

PyInt(v) == [type |-> "int", v |-> v]

PyList(v) == [type |-> "list", v |-> v]

PyDict(d) == [type |-> "dict", d |-> d]

\* The list [f(x) for x in s] of typed values.
TypedList(s, F(_)) == PyList([i \in DOMAIN s |-> F(s[i])])

Range(s) == {s[i] : i \in DOMAIN s}

(***************************************************************************)
(* regions.py                                                              *)
(***************************************************************************)
MIN_LONG == -180

MAX_LONG == 180

HTTP_GET == "GET"

HTTP_PUT == "PUT"

VALID_METHODS == {HTTP_GET, HTTP_PUT}

FILTER__NONE == "none"

FILTER__BY_REGION_NAME == "by_name"

FILTER__BY_REGION_DATA == "by_data"

VALID_FILTER_TYPES == {FILTER__NONE, FILTER__BY_REGION_NAME, FILTER__BY_REGION_DATA}

(***************************************************************************)
(* The requests the model sends to the region handler.                     *)
(***************************************************************************)
GLOBAL == [name |-> "global", min_lat |-> -90, max_lat |-> 90]

TROPICS == [name |-> "tropics", min_lat |-> -20, max_lat |-> 20]

\* A second band under the name of GLOBAL, and a band with min_lat > max_lat.
GLOBAL_BAND == [name |-> "global", min_lat |-> -20, max_lat |-> 20]

INVERTED == [name |-> "tropics", min_lat |-> 20, max_lat |-> -20]

RegionDicts == {GLOBAL, TROPICS, GLOBAL_BAND, INVERTED}

RegionNames == {r.name : r \in RegionDicts}

RegionPutRequests ==
    {[method |-> HTTP_PUT, body |-> [regions |-> TypedList(rs, PyDict)]] :
        rs \in ListsUpTo2(RegionDicts)}

\* GET requests by name, by region data and for all rows.  The three sets
\* are kept apart: their bodies hold names or region dicts.
RegionGetByNameRequests ==
    {[method |-> HTTP_GET, params |-> [filter_type |-> FILTER__BY_REGION_NAME],
      body |-> [regions |-> TypedList(ns, PyStr)]] : ns \in ListsUpTo2(RegionNames)}

RegionGetByDataRequests ==
    {[method |-> HTTP_GET, params |-> [filter_type |-> FILTER__BY_REGION_DATA],
      body |-> [regions |-> TypedList(<<r>>, PyDict)]] : r \in RegionDicts}

RegionGetAllRequests ==
    {[method |-> HTTP_GET, params |-> [filter_type |-> FILTER__NONE],
      body |-> [regions |-> PyList(<<>>)]]}

\* f'{float(v)}' for a float with an integral value.
FloatStr(v) == IF v < 0 THEN "-" \o ToString(0 - v) \o ".0" ELSE ToString(v) \o ".0"

\* One corner of the polygon: f'({float(lon)} {float(lat)})'.
Corner(lon, lat) == "(" \o FloatStr(lon) \o " " \o FloatStr(lat) \o ")"

\* Region.__post_init__, lines 82-88.  Line 82 assigns 'POLYGON(' to
\* self.grid and line 83 assigns again (=, not +=), so the string starts
\* at the first corner.
RegionGrid(min_lat, max_lat) ==
    LET line82 == "POLYGON("
        line83 == Corner(MIN_LONG, max_lat) \o ","
        line84 == line83 \o Corner(MAX_LONG, max_lat) \o ","
        line85 == line84 \o Corner(MAX_LONG, min_lat) \o ","
        line86 == line85 \o Corner(MIN_LONG, min_lat) \o ","
        line87 == line86 \o Corner(MIN_LONG, max_lat)
        line88 == line87 \o ")"
    IN  line88

Abs(v) == IF v < 0 THEN 0 - v ELSE v

\* Region.__post_init__, line 90: self.hash_val = self.name + self.grid
RegionHash(name, grid) == name \o grid

\* Region(name, min_lat, max_lat): the dataclass with its __post_init__,
\* returning what get_region_data() gives.  The arguments are r.get(...).
RegionInit(name, min_lat, max_lat) ==
    IF name = PyNone THEN Raise("ValueError")
    ELSE IF min_lat = PyNone \/ max_lat = PyNone THEN Raise("ValueError")
    ELSE IF Val(min_lat) > Val(max_lat) THEN Raise("ValueError")
    ELSE IF Abs(Val(min_lat)) > 90 \/ Abs(Val(max_lat)) > 90 THEN Raise("ValueError")
    ELSE Let(RegionGrid(Val(min_lat), Val(max_lat)),
             LAMBDA grid :
                 Ok([name |-> Val(name), min_lat |-> Val(min_lat),
                     max_lat |-> Val(max_lat), grid |-> grid,
                     hash_val |-> RegionHash(Val(name), grid)]))

\* Region(r.get('name'), r.get('min_lat'), r.get('max_lat')) for every region
\* dict r the model sends (lines 114-115), computed once.
ValidatedRegion ==
    [r \in RegionDicts |->
        RegionInit(Get(r, "name"), Get(r, "min_lat"), Get(r, "max_lat"))]

\* list(s) of a Python set s: every element of s once, in an order the code
\* does not choose.  A list whose order is not modelled is the function
\* from its elements to the number of times each occurs.
PyListOfSet(s) == [e \in s |-> 1]

\* The list [f(x) for x in l] of a list l whose order is not modelled.
MapList(l, F(_)) ==
    [y \in {F(x) : x \in DOMAIN l} |->
        Cardinality({x \in DOMAIN l : F(x) = y})]

\* [x.name for x in regions]
NameOf(x) == x.name

\* validate_list_of_regions(regions); regions is d.get('regions').  Every
\* dict r of the list is run through Region(r.get('name'), r.get('min_lat'),
\* r.get('max_lat')) and its RegionData added to a set; r.get on a member
\* that is not a dict, or a Region that raises, ends in TypeError.
validate_list_of_regions(rs) ==
    IF rs = PyNone THEN Raise("TypeError")
    ELSE IF Val(rs).type # "list" THEN Raise("TypeError")
    ELSE IF \E i \in DOMAIN Val(rs).v : Val(rs).v[i].type # "dict"
    THEN Raise("TypeError")
    ELSE Let({ValidatedRegion[Val(rs).v[i].d] : i \in DOMAIN Val(rs).v},
             LAMBDA made : IF \E m \in made : m.raised THEN Raise("TypeError")
                           ELSE Ok(PyListOfSet({m.value : m \in made})))

\* validate_list_of_strings(values): the members of the list are added to
\* a set, and the set is returned as a list.
validate_list_of_strings(values) ==
    IF values = PyNone THEN Raise("TypeError")
    ELSE IF Val(values).type # "list" THEN Raise("TypeError")
    ELSE IF \E i \in DOMAIN Val(values).v : Val(values).v[i].type # "str"
    THEN Raise("TypeError")
    ELSE Ok(PyListOfSet({Val(values).v[i].v : i \in DOMAIN Val(values).v}))

\* A variant of validate_method: every method that is given is accepted.
validate_method_any(method) ==
    IF method = PyNone THEN Raise("ValueError") ELSE Ok(Val(method))

validate_method(method) ==
    IF method = PyNone \/ Val(method) \notin VALID_METHODS THEN Raise("ValueError")
    ELSE Ok(Val(method))

get_filter_type(params) ==
    Let(Get(params, "filter_type"),
        LAMBDA filter_type :
            IF filter_type = PyNone THEN Ok(FILTER__NONE)
            ELSE IF Val(filter_type) \notin VALID_FILTER_TYPES
            THEN Raise("ValueError")
            ELSE Ok(Val(filter_type)))

\* validate_body: [region_names, regions]; a field the code leaves None is
\* PyNone.  (RegionRequest never passes filter_type None.)
validate_body(method, body, filter_type) ==
    IF body = PyNone THEN Raise("TypeError")
    ELSE IF method = HTTP_GET THEN
        IF filter_type = FILTER__BY_REGION_NAME THEN
            Bind(validate_list_of_strings(Get(Val(body), "regions")),
                 LAMBDA names : Ok([region_names |-> Some(names), regions |-> PyNone]))
        ELSE IF filter_type = FILTER__BY_REGION_DATA THEN
            Bind(validate_list_of_regions(Get(Val(body), "regions")),
                 LAMBDA rs : Ok([region_names |-> Some(MapList(rs, NameOf)),
                                 regions |-> Some(rs)]))
        ELSE Ok([region_names |-> PyNone, regions |-> PyNone])
    ELSE IF method = HTTP_PUT THEN
        Bind(validate_list_of_regions(Get(Val(body), "regions")),
             LAMBDA rs : Ok([region_names |-> Some(MapList(rs, NameOf)),
                             regions |-> Some(rs)]))
    ELSE Raise("ValueError")

\* RegionRequest.__post_init__.
RegionRequestInit(request_dict) ==
    Bind(validate_method(Get(request_dict, "method")), LAMBDA method :
    Bind(get_filter_type(IF "params" \in DOMAIN request_dict
                         THEN request_dict["params"] ELSE <<>>), LAMBDA filter_type :
    Bind(validate_body(method, Get(request_dict, "body"), filter_type), LAMBDA vb :
    Ok([method |-> method, filter_type |-> filter_type,
        region_names |-> vb.region_names, regions |-> vb.regions]))))

\* The hash_val of every region a request can hold.
AllHashes ==
    {ValidatedRegion[r].value.hash_val :
        r \in {q \in RegionDicts : ~ValidatedRegion[q].raised}}

\* rg.name.concat(rg.bounds).label('unique_region')
unique_region(row) == row.name \o row.bounds

\* RegionRequest.get_region_set: the rows whose name || bounds is requested.
get_region_set(table, hash_vals) ==
    {row \in table : unique_region(row) \in hash_vals}

get_all_regions(table) == table

get_regions_by_name(table, region_names) ==
    {row \in table : row.name \in DOMAIN region_names}

\* RegionRequest.get_regions_hash_vals
get_regions_hash_vals(rs) == {r.hash_val : r \in DOMAIN rs}

\* A variant of RegionsToInsert: the check against the stored rows dropped.
RegionsToInsertUnchecked(rs, existing_regions) == DOMAIN rs

\* RegionRequest.submit, PUT, lines 280-293: the regions of the request
\* that match no stored row.
RegionsToInsert(rs, existing_regions) ==
    {region \in DOMAIN rs :
        \/ existing_regions = {}
        \/ region.hash_val \notin {unique_region(e) : e \in existing_regions}}

\* The rows that session.bulk_save_objects(records) adds: ids are given in
\* the order of the list, which is the order of a Python set.
NewRegionRows(table, records, now) ==
    {{[id |-> Cardinality(table) + i, name |-> ord[i].name, bounds |-> ord[i].grid,
       created_at |-> now] : i \in DOMAIN ord} :
         ord \in {f \in [1..Cardinality(records) -> records] :
                     \A i, j \in DOMAIN f : i # j => f[i] # f[j]}}

(***************************************************************************)
(* db_action_response.py: what a request gives its caller.  A request that *)
(* returns gives a DbActionResponse; one that raises gives the exception   *)
(* and the phase (constructing the request object, or submit) it left; one *)
(* that runs off the end of its function gives None.                       *)
(***************************************************************************)
DbActionResponse(op, request, success, details, errors) ==
    [op |-> op, request |-> request, raised |-> FALSE, exc |-> "",
     phase |-> "submit", success |-> success, details |-> details,
     errors |-> errors, returned |-> "DbActionResponse"]

Raised(op, request, phase, exc) ==
    [op |-> op, request |-> request, raised |-> TRUE, exc |-> exc,
     phase |-> phase, success |-> FALSE, details |-> <<>>, errors |-> PyNone,
     returned |-> "exception"]

\* A function that ends without a return statement: the caller gets None.
ReturnedNone(op, request) ==
    [op |-> op, request |-> request, raised |-> FALSE, exc |-> "",
     phase |-> "submit", success |-> FALSE, details |-> <<>>, errors |-> PyNone,
     returned |-> "None"]

NoRequest == [op |-> "none", request |-> <<>>, raised |-> FALSE, exc |-> "",
              phase |-> "", success |-> FALSE, details |-> <<>>, errors |-> PyNone,
              returned |-> ""]

(***************************************************************************)
(* RegionRequest(request_dict).submit()                                    *)
(***************************************************************************)
\* The regions a GET matches, by the filter type of the request.
RegionGetMatched(rr) ==
    IF rr.filter_type = FILTER__NONE THEN get_all_regions(regions)
    ELSE IF rr.filter_type = FILTER__BY_REGION_NAME
    THEN get_regions_by_name(regions, Val(rr.region_names))
    ELSE IF DOMAIN Val(rr.regions) = {} THEN get_all_regions(regions)
    ELSE get_region_set(regions, get_regions_hash_vals(Val(rr.regions)))

\* A variant of FailedBulkSave: the rows saved before the failure stay.
FailedBulkSaveKeepingRows(table, rows) == table \cup rows

\* session.bulk_save_objects(records); session.commit() when one of the two
\* raises: the session is dropped with its transaction open, and the table
\* holds none of the rows.
FailedBulkSave(table, rows) == table

\* The PUT branch of submit for the regions rs of the request, of which
\* records are not stored yet.
RegionSubmitPut(request_dict, dbOk, hash_vals, records) ==
    IF records = {}
    THEN /\ UNCHANGED regions
         /\ regionPuts' = [h \in AllHashes |->
                IF h \in hash_vals THEN regionPuts[h] + 1 ELSE regionPuts[h]]
         /\ last' = DbActionResponse("region", request_dict, TRUE,
                [inserted_records |-> {},
                 matched_records |-> get_region_set(regions, hash_vals),
                 stored_before |-> regions],
                PyNone)
    ELSE IF dbOk
    THEN \E rows \in NewRegionRows(regions, records, clock) :
         /\ regions' = regions \cup rows
         /\ regionPuts' = [h \in AllHashes |->
                IF h \in hash_vals THEN regionPuts[h] + 1 ELSE regionPuts[h]]
         /\ last' = DbActionResponse("region", request_dict, TRUE,
                [inserted_records |->
                     get_region_set(regions', {r.hash_val : r \in records}),
                 matched_records |-> get_region_set(regions', hash_vals),
                 stored_before |-> regions],
                PyNone)
    ELSE \E rows \in NewRegionRows(regions, records, clock) :
         /\ regions' = FailedBulkSave(regions, rows)
         /\ UNCHANGED regionPuts
         /\ last' = DbActionResponse("region", request_dict, FALSE,
                [inserted_records |-> {},
                 matched_records |-> get_region_set(regions', hash_vals),
                 stored_before |-> regions],
                Some("Failed to insert records"))

\* submit() of the request object rr that RegionRequest(request_dict) gave,
\* or the exception its construction raised.
RegionSubmit(rr, request_dict, dbOk) ==
    IF rr.raised
    THEN /\ last' = Raised("region", request_dict, "construct", rr.exc)
         /\ UNCHANGED <<regions, regionPuts>>
    ELSE IF rr.value.method = HTTP_GET
    THEN /\ last' = DbActionResponse("region", request_dict, TRUE,
                        [matched_records |-> RegionGetMatched(rr.value)], PyNone)
         /\ UNCHANGED <<regions, regionPuts>>
    ELSE RegionSubmitPut(request_dict, dbOk,
             get_regions_hash_vals(Val(rr.value.regions)),
             RegionsToInsert(Val(rr.value.regions),
                 get_region_set(regions,
                     get_regions_hash_vals(Val(rr.value.regions)))))

\* RegionRequest(request_dict) then submit(): what it does to the regions
\* table and what comes back.  dbOk is whether bulk_save_objects and commit
\* of the PUT branch go through; when they raise, nothing of the batch is
\* committed.
RegionRequestSubmit(request_dict, dbOk) ==
    RegionSubmit(RegionRequestInit(request_dict), request_dict, dbOk)

\* A caller builds a RegionRequest for a PUT and submits it.
RegionPut(request_dict, dbOk) ==
    /\ clock <= MaxRequests
    /\ clock' = clock + 1
    /\ UNCHANGED <<experiments, exptLog, metric_types, expt_metrics, sessions, harvest, arg, ret>>
    /\ RegionRequestSubmit(request_dict, dbOk)

\* A caller builds a RegionRequest for a GET and submits it.
RegionGet(request_dict) ==
    /\ clock <= MaxRequests
    /\ clock' = clock + 1
    /\ UNCHANGED <<experiments, exptLog, metric_types, expt_metrics, sessions, harvest, arg, ret>>
    /\ RegionRequestSubmit(request_dict, TRUE)

(***************************************************************************)
(* experiments.py                                                          *)
(***************************************************************************)
HERA == "hera"

ORION == "orion"

VALID_PLATFORMS == {HERA, ORION, "pw_azv1", "pw_azv2", "pw_awv1", "pw_awv2"}

INSERT == "INSERT"

UPDATE == "UPDATE"

EXACT_DATETIME == "exact"

FROM_DATETIME == "from"

TO_DATETIME == "to"

ASCENDING == "asc"

DESCENDING == "desc"

VALID_ORDER_BY == {ASCENDING, DESCENDING}

DEFAULT_DATETIME_FORMAT_STR == "%Y-%m-%d %H:%M:%S"

\* The format the handler's test and docstrings write their dates in.
UNDERSCORE_FORMAT_STR == "%Y-%m-%d_%H:%M:%S"

\* datetime(1970, 1, 1), the default of a missing experiment date.
EPOCH == 0

Times == 1..MaxTime

\* A date string: the layout it is written in and the instant it denotes.
DateStrings == [layout : {DEFAULT_DATETIME_FORMAT_STR, UNDERSCORE_FORMAT_STR}, t : Times]

\* datetime.strptime(value, format_str)
strptime(value, format_str) ==
    IF value.layout = format_str THEN Ok(value.t) ELSE Raise("ValueError")

\* experiments.get_time: value is d.get(...); the result is None or the
\* parsed time.  The string is parsed with DEFAULT_DATETIME_FORMAT_STR
\* whatever datetime_format is (line 208).
experiments_get_time(value) ==
    IF value = PyNone THEN Ok(PyNone)
    ELSE IF strptime(Val(value), DEFAULT_DATETIME_FORMAT_STR).raised
    THEN Raise("ValueError")
    ELSE Ok(Some(strptime(Val(value), DEFAULT_DATETIME_FORMAT_STR).value))

\* Predicates of a WHERE clause on one column.
ColumnEq(col, v) == [col |-> col, op |-> "==", lo |-> v, hi |-> v]

ColumnGe(col, v) == [col |-> col, op |-> ">=", lo |-> v, hi |-> v]

ColumnLe(col, v) == [col |-> col, op |-> "<=", lo |-> v, hi |-> v]

ColumnBetween(col, lo, hi) == [col |-> col, op |-> "and", lo |-> lo, hi |-> hi]

\* Whether a column value v satisfies predicate p.
Satisfies(p, v) ==
    CASE p.op = "==" -> v = p.lo
      [] p.op = ">=" -> v >= p.lo
      [] p.op = "<=" -> v <= p.hi
      [] p.op = "and" -> v >= p.lo /\ v <= p.hi
      [] p.op = "like" -> v = p.lo
      [] p.op = "in" -> v \in p.lo

\* constructed_filter[key] = pred
SetItem(d, key, value) == [k \in DOMAIN d \cup {key} |-> IF k = key THEN value ELSE d[k]]

\* The body both get_time_filter functions share from the line that reads
\* the column's bounds on: experiments.py 252-288, expt_metrics.py 209-241.
\* bounds is filters.get(key); parse is the module's get_time.
TimeFilterFromBounds(bounds, key, constructed_filter, exact, from, to) ==
    IF bounds = PyNone THEN Ok(constructed_filter)
    ELSE IF exact.raised THEN exact
    ELSE IF exact.value # PyNone
    THEN Ok(SetItem(constructed_filter, key, ColumnEq(key, Val(exact.value))))
    ELSE IF from.raised THEN from
    ELSE IF to.raised THEN to
    ELSE IF from.value # PyNone /\ to.value # PyNone
    THEN IF Val(to.value) < Val(from.value) THEN Raise("ValueError")
         ELSE Ok(SetItem(constructed_filter, key,
                         ColumnBetween(key, Val(from.value), Val(to.value))))
    ELSE IF from.value # PyNone
    THEN Ok(SetItem(constructed_filter, key, ColumnGe(key, Val(from.value))))
    ELSE IF to.value # PyNone
    THEN Ok(SetItem(constructed_filter, key, ColumnLe(key, Val(to.value))))
    ELSE Ok(constructed_filter)

\* The names get_time_filter of experiments.py can read: its parameters
\* (line 220), the locals it assigns and the names the module defines.
experiments_get_time_filter_names ==
    {"filter", "cls", "key", "constructed_filter",
     "bounds", "exact_datetime", "from_datetime", "to_datetime", "msg",
     "get_time", "exp", "and_", "EXACT_DATETIME", "FROM_DATETIME", "TO_DATETIME"}

\* experiments.get_time_filter(filter, cls, key, constructed_filter).  The
\* parameter is named filter; line 251 (and the message of line 248) reads
\* filters, which is a NameError unless that name is defined.  filter is
\* params.get('filters'): PyNone or Some(dict).
experiments_get_time_filter(filter, key, constructed_filter) ==
    IF "filters" \notin experiments_get_time_filter_names THEN Raise("NameError")
    ELSE IF filter = PyNone THEN Raise("TypeError")
    ELSE Let(Get(Val(filter), key), LAMBDA bounds :
         Let(IF bounds = PyNone THEN <<>> ELSE Val(bounds), LAMBDA b :
             TimeFilterFromBounds(bounds, key, constructed_filter,
                 experiments_get_time(Get(b, EXACT_DATETIME)),
                 experiments_get_time(Get(b, FROM_DATETIME)),
                 experiments_get_time(Get(b, TO_DATETIME)))))

\* experiments.get_string_filter(filters, cls, key, constructed_filter)
experiments_get_string_filter(filters, key, constructed_filter) ==
    IF filters = PyNone THEN Raise("TypeError")
    ELSE Let(Get(Val(filters), key), LAMBDA string_flt :
             IF string_flt = PyNone THEN Ok(constructed_filter)
             ELSE IF Get(Val(string_flt), "like") # PyNone
             THEN Ok(SetItem(constructed_filter, key,
                        [col |-> key, op |-> "like",
                         lo |-> Val(Get(Val(string_flt), "like")),
                         hi |-> Val(Get(Val(string_flt), "like"))]))
             ELSE IF Get(Val(string_flt), "exact") # PyNone
             THEN Ok(SetItem(constructed_filter, key,
                        ColumnEq(key, Val(Get(Val(string_flt), "exact")))))
             ELSE Ok(constructed_filter))

\* experiments.construct_filters(filters): name, the four time columns,
\* owner_id, group_id, in that order; the first call that raises ends it.
experiments_construct_filters(filters) ==
    Bind(experiments_get_string_filter(filters, "name", <<>>), LAMBDA f1 :
    Bind(experiments_get_time_filter(filters, "cycle_start", f1), LAMBDA f2 :
    Bind(experiments_get_time_filter(filters, "cycle_stop", f2), LAMBDA f3 :
    Bind(experiments_get_time_filter(filters, "wallclock_start", f3), LAMBDA f4 :
    Bind(experiments_get_time_filter(filters, "wallclock_end", f4), LAMBDA f5 :
    Bind(experiments_get_string_filter(filters, "owner_id", f5), LAMBDA f6 :
    experiments_get_string_filter(filters, "group_id", f6)))))))

\* A column that holds no value.
NULL == "NULL"

\* The value an INSERT stores for an attribute that is None or set.
ColumnValue(o) == IF o = PyNone THEN NULL ELSE Val(o)

\* The JSON texts of the model.
JSON_EMPTY == "{}"
JSON_NOTE == "{\"note\": 1}"

\* json.loads(s); s is d.get(...).  None and a text that is not JSON raise.
json_loads(s) ==
    IF s = PyNone THEN Raise("TypeError")
    ELSE IF Val(s) = JSON_EMPTY THEN Ok(<<>>)
    ELSE IF Val(s) = JSON_NOTE THEN Ok([note |-> 1])
    ELSE Raise("JSONDecodeError")

\* Experiment.__post_init__ (lines 104-127) on the parsed dates and the
\* parsed description.
ExperimentInit(name, cycle_start, cycle_stop, owner_id, group_id, experiment_type, platform, wallclock_start, wallclock_end, description) ==
    IF cycle_start > cycle_stop THEN Raise("ValueError")
    ELSE IF platform = PyNone \/ Val(platform) \notin VALID_PLATFORMS
    THEN Raise("ValueError")
    ELSE Ok([name |-> Val(name), cycle_start |-> cycle_start,
             cycle_stop |-> cycle_stop, owner_id |-> owner_id,
             group_id |-> group_id, experiment_type |-> experiment_type,
             platform |-> Val(platform),
             wallclock_start |-> wallclock_start, wallclock_end |-> wallclock_end,
             description |-> description])

\* get_experiment_from_body, lines 160-172: one date of the body.  A
\* missing date is the epoch.  When strptime raises, the handler builds its
\* message from exp_dates[date_var_str], which is not set yet: a KeyError.
ExperimentDate(body, date_var_str) ==
    IF Get(body, date_var_str) = PyNone THEN Ok(EPOCH)
    ELSE IF Get(body, "datestr_format") = PyNone THEN Raise("KeyError")
    ELSE Let(strptime(Val(Get(body, date_var_str)), Val(Get(body, "datestr_format"))),
             LAMBDA parsed : IF parsed.raised THEN Raise("KeyError") ELSE parsed)

\* get_experiment_from_body(body); body is request_dict.get('body').
get_experiment_from_body(body) ==
    IF body = PyNone THEN Raise("TypeError")
    ELSE IF json_loads(Get(Val(body), "description")).raised THEN Raise("ValueError")
    ELSE
    Bind(ExperimentDate(Val(body), "cycle_start"), LAMBDA cycle_start :
    Bind(ExperimentDate(Val(body), "cycle_stop"), LAMBDA cycle_stop :
    Bind(ExperimentDate(Val(body), "wallclock_start"), LAMBDA wallclock_start :
    Bind(ExperimentDate(Val(body), "wallclock_end"), LAMBDA wallclock_end :
    ExperimentInit(Get(Val(body), "name"), cycle_start, cycle_stop,
                   Get(Val(body), "owner_id"), Get(Val(body), "group_id"),
                   Get(Val(body), "experiment_type"), Get(Val(body), "platform"),
                   wallclock_start, wallclock_end,
                   json_loads(Get(Val(body), "description")).value)))))

\* ExperimentRequest.__post_init__, lines 490-491: self.filters.
ExperimentRequestFilters(params) ==
    IF params = PyNone THEN Ok(PyNone)
    ELSE Bind(experiments_construct_filters(Get(Val(params), "filters")),
              LAMBDA cf : Ok(Some(cf)))

\* ExperimentRequest.__post_init__: self.ordering.
ExperimentRequestOrdering(params) ==
    IF params = PyNone THEN PyNone ELSE Get(Val(params), "ordering")

\* ExperimentRequest.__post_init__: self.record_limit, kept when positive.
ExperimentRequestRecordLimit(params) ==
    IF params = PyNone THEN PyNone
    ELSE IF Get(Val(params), "record_limit") = PyNone THEN PyNone
    ELSE IF Val(Get(Val(params), "record_limit")) <= 0 THEN PyNone
    ELSE Get(Val(params), "record_limit")

\* ExperimentRequest.__post_init__: the filters are built whenever params
\* is a dict, for a GET and for a PUT alike, before the body is read.
ExperimentRequestInit(request_dict) ==
    Bind(validate_method(Get(request_dict, "method")), LAMBDA method :
    Bind(ExperimentRequestFilters(Get(request_dict, "params")), LAMBDA filters :
    Bind(IF method = HTTP_PUT
         THEN Bind(get_experiment_from_body(Get(request_dict, "body")),
                   LAMBDA experiment : Ok(Some(experiment)))
         ELSE Ok(PyNone), LAMBDA experiment_data :
    Ok([method |-> method, filters |-> filters,
        ordering |-> ExperimentRequestOrdering(Get(request_dict, "params")),
        record_limit |-> ExperimentRequestRecordLimit(Get(request_dict, "params")),
        experiment_data |-> experiment_data]))))

\* The unique_experiment constraint: (name, wallclock_start).
ExperimentKey(row) == <<row.name, row.wallclock_start>>

\* A variant of UpsertExperiment: DO UPDATE SET also group_id, the line the
\* statement holds as a comment, and description.
UpsertExperimentSettingGroup(table, data, time_now) ==
    IF \E row \in table : ExperimentKey(row) = ExperimentKey(data)
    THEN {IF ExperimentKey(row) = ExperimentKey(data)
          THEN [row EXCEPT !.group_id = ColumnValue(data.group_id),
                           !.description = data.description,
                           !.wallclock_end = time_now,
                           !.updated_at = Some(time_now)]
          ELSE row : row \in table}
    ELSE table \cup {[id |-> Cardinality(table) + 1, name |-> data.name,
                      cycle_start |-> data.cycle_start, cycle_stop |-> data.cycle_stop,
                      owner_id |-> Val(data.owner_id),
                      group_id |-> ColumnValue(data.group_id),
                      experiment_type |-> ColumnValue(data.experiment_type),
                      platform |-> data.platform,
                      wallclock_start |-> data.wallclock_start,
                      wallclock_end |-> data.wallclock_end,
                      description |-> data.description, created_at |-> time_now,
                      updated_at |-> PyNone]}

\* put_experiment, lines 536-561: INSERT ... ON CONFLICT ON CONSTRAINT
\* unique_experiment DO UPDATE SET wallclock_end, updated_at.  The table
\* after the statement.
UpsertExperiment(table, data, time_now) ==
    IF \E row \in table : ExperimentKey(row) = ExperimentKey(data)
    THEN {IF ExperimentKey(row) = ExperimentKey(data)
          THEN [row EXCEPT !.wallclock_end = time_now, !.updated_at = Some(time_now)]
          ELSE row : row \in table}
    ELSE table \cup {[id |-> Cardinality(table) + 1, name |-> data.name,
                      cycle_start |-> data.cycle_start, cycle_stop |-> data.cycle_stop,
                      owner_id |-> Val(data.owner_id),
                      group_id |-> ColumnValue(data.group_id),
                      experiment_type |-> ColumnValue(data.experiment_type),
                      platform |-> data.platform,
                      wallclock_start |-> data.wallclock_start,
                      wallclock_end |-> data.wallclock_end,
                      description |-> data.description, created_at |-> time_now,
                      updated_at |-> PyNone]}

\* .returning(exp) ... result.fetchone(): the row the statement wrote.
ReturnedRow(table_after, data) ==
    CHOOSE row \in table_after :
        /\ ExperimentKey(row) = ExperimentKey(data)
        /\ \A other \in table_after :
               ExperimentKey(other) = ExperimentKey(data) => other.id <= row.id

\* A variant of PutAction: every statement reported as an INSERT.
PutActionAlwaysInsert(result_row) == INSERT

\* put_experiment, lines 575-577.
PutAction(result_row) ==
    IF result_row.updated_at # PyNone THEN UPDATE ELSE INSERT

\* The columns of the Experiment table (score_table_models.py 86-99).
ExperimentColumns ==
    {"id", "name", "cycle_start", "cycle_stop", "owner_id", "group_id",
     "experiment_type", "platform", "wallclock_start", "wallclock_end",
     "description", "created_at", "updated_at"}

\* The columns of the ExperimentMetric table (score_table_models.py 107-115).
ExperimentMetricColumns ==
    {"id", "experiment_id", "metric_type_id", "region_id", "elevation",
     "elevation_unit", "value", "time_valid", "created_at"}

\* The target entity classes of build_column_ordering.
Entities ==
    [exp |-> ExperimentColumns, ex_mt |-> ExperimentMetricColumns,
     mts |-> {"id", "name", "measurement_type", "measurement_units", "stat_type",
              "description", "created_at", "updated_at"}]

\* validate_column_name(cls, value); value is value.get('name').
validate_column_name(cls, value) ==
    IF value = PyNone \/ Val(value).type # "str" THEN Raise("TypeError")
    ELSE IF Val(value).v \notin Entities[cls] THEN Raise("ValueError")
    ELSE Ok(Val(value).v)

\* A variant of validate_order_dir: any str accepted as a direction.
validate_order_dir_any_str(value) ==
    IF value = PyNone \/ Val(value).type # "str" THEN Raise("TypeError")
    ELSE Ok(Val(value).v)

\* validate_order_dir(value); value is value.get('order_by').
validate_order_dir(value) ==
    IF value = PyNone \/ Val(value).type # "str" THEN Raise("TypeError")
    ELSE IF Val(value).v \notin VALID_ORDER_BY THEN Raise("TypeError")
    ELSE Ok(Val(value).v)

\* The loop of build_column_ordering from item i on; items are
\* [isdict, name, order_by].
RECURSIVE ColumnOrderingFrom(_, _, _, _)
ColumnOrderingFrom(cls, ordering, i, constructed_ordering) ==
    IF i > Len(ordering) THEN Ok(constructed_ordering)
    ELSE IF ~ordering[i].isdict THEN Raise("TypeError")
    ELSE Bind(validate_column_name(cls, ordering[i].name), LAMBDA col_obj :
         Bind(validate_order_dir(ordering[i].order_by), LAMBDA order_by :
              ColumnOrderingFrom(cls, ordering, i + 1,
                  Append(constructed_ordering,
                         [col |-> col_obj,
                          dir |-> IF order_by = ASCENDING
                                  THEN ASCENDING ELSE DESCENDING]))))

\* build_column_ordering(cls, ordering), the same function in experiments.py
\* and expt_metrics.py; ordering is [islist, items] or None.
build_column_ordering(cls, ordering) ==
    IF ordering = PyNone THEN Ok(PyNone)
    ELSE IF ~Val(ordering).islist THEN Raise("TypeError")
    ELSE Bind(ColumnOrderingFrom(cls, Val(ordering).items, 1, <<>>),
              LAMBDA r : Ok(Some(r)))

\* expt_metrics.get_time(value): parsed with the default format.
expt_metrics_get_time(value) ==
    IF value = PyNone THEN Ok(PyNone)
    ELSE IF strptime(Val(value), DEFAULT_DATETIME_FORMAT_STR).raised
    THEN Raise("ValueError")
    ELSE Ok(Some(strptime(Val(value), DEFAULT_DATETIME_FORMAT_STR).value))

\* expt_metrics.get_time_filter(filter_dict, cls, key, constructed_filter)
expt_metrics_get_time_filter(filter_dict, key, constructed_filter) ==
    IF filter_dict = PyNone THEN Raise("TypeError")
    ELSE Let(Get(Val(filter_dict), key), LAMBDA value :
         Let(IF value = PyNone THEN <<>> ELSE Val(value), LAMBDA b :
             TimeFilterFromBounds(value, key, constructed_filter,
                 expt_metrics_get_time(Get(b, EXACT_DATETIME)),
                 expt_metrics_get_time(Get(b, FROM_DATETIME)),
                 expt_metrics_get_time(Get(b, TO_DATETIME)))))

\* get_experiments, lines 632-646: the record sets q.all() can return.  A
\* LIMIT keeps record_limit of the matching rows.
get_experiments(table, filters, record_limit) ==
    Let({row \in table :
            filters = PyNone \/
            \A key \in DOMAIN Val(filters) : Satisfies(Val(filters)[key], row[key])},
        LAMBDA matching :
            IF record_limit = PyNone \/ Val(record_limit) >= Cardinality(matching)
            THEN {matching}
            ELSE {rows \in SUBSET matching : Cardinality(rows) = Val(record_limit)})

\* What session.execute / session.commit can do in put_experiment.
Faults == {"none", "execute", "commit"}

ExperimentNames == {"exp1", "exp2"}

\* A date string in the default layout.
DateStr(t) == [layout |-> DEFAULT_DATETIME_FORMAT_STR, t |-> t]

\* A body the handler accepts.
ExperimentBody(name, cycle_start, cycle_stop, platform, wallclock_start) ==
    [name |-> name, cycle_start |-> DateStr(cycle_start),
     cycle_stop |-> DateStr(cycle_stop), owner_id |-> "owner",
     platform |-> platform, wallclock_start |-> DateStr(wallclock_start),
     description |-> JSON_EMPTY, datestr_format |-> DEFAULT_DATETIME_FORMAT_STR]

\* d without key k.
DelItem(d, k) == [x \in DOMAIN d \ {k} |-> d[x]]

ValidExperimentBodies ==
    {ExperimentBody(name, 1, 2, HERA, t) : name \in ExperimentNames, t \in Times}

\* Bodies with cycle_start later than cycle_stop.
InvertedCycleBodies ==
    {ExperimentBody("exp1", t, 1, ORION, 1) : t \in Times \ {1}}

\* Bodies whose platform is missing or outside VALID_PLATFORMS.
BadPlatformBodies ==
    {ExperimentBody("exp1", 1, 2, "cheyenne", 1),
     DelItem(ExperimentBody("exp1", 1, 2, HERA, 1), "platform")}

\* Bodies that fail for another reason: no description, a date written in
\* another layout than datestr_format, no owner_id (a NOT NULL column).
OtherBadBodies ==
    {DelItem(ExperimentBody("exp1", 1, 2, HERA, 1), "description"),
     SetItem(ExperimentBody("exp1", 1, 2, HERA, 1), "cycle_stop",
             [layout |-> UNDERSCORE_FORMAT_STR, t |-> 2]),
     DelItem(ExperimentBody("exp1", 1, 2, HERA, 1), "owner_id")}

ExperimentBodies ==
    ValidExperimentBodies \cup InvertedCycleBodies \cup BadPlatformBodies
        \cup OtherBadBodies

\* The params a request can carry: an empty dict, an empty filters dict, a
\* cycle_start filter, a platform filter.
ExperimentParams ==
    {<<>>, [filters |-> <<>>],
     [filters |-> [cycle_start |-> [from |-> DateStr(1)]]],
     [filters |-> [platform |-> [exact |-> ORION]]]}

ExperimentPutRequests ==
    {[method |-> HTTP_PUT, body |-> body] : body \in ExperimentBodies}

ExperimentPutWithParamsRequests ==
    {[method |-> HTTP_PUT, body |-> body, params |-> params] :
        body \in {ExperimentBody("exp1", 1, 2, HERA, 1),
                  ExperimentBody("exp1", 2, 1, HERA, 1),
                  ExperimentBody("exp1", 1, 2, "cheyenne", 1)},
        params \in ExperimentParams}

ExperimentGetRequests ==
    {[method |-> HTTP_GET]} \cup
    {[method |-> HTTP_GET, params |-> params] : params \in ExperimentParams}

\* get_experiments as submit calls it: column_ordering is what
\* build_column_ordering returned or raised.
ExperimentSubmitGet(er, request_dict, column_ordering) ==
    /\ UNCHANGED <<experiments, exptLog>>
    /\ IF column_ordering.raised
       THEN last' = Raised("experiment", request_dict, "submit", column_ordering.exc)
       ELSE \E records \in get_experiments(experiments, er.filters, er.record_limit) :
                last' = DbActionResponse("experiment", request_dict, TRUE,
                            IF records # {}
                            THEN [record_count |-> Cardinality(records),
                                  records |-> records]
                            ELSE [record_count |-> 0],
                            PyNone)

\* put_experiment from the commit on, lines 563-605: result_row is the row
\* the statement returned, table_after the table once it is committed.
ExperimentSubmitCommit(request_dict, fault, data, table_after, result_row) ==
    IF fault = "commit"
    THEN /\ last' = DbActionResponse("experiment", request_dict, FALSE,
                        [action |-> INSERT, data |-> result_row,
                         id |-> result_row.id],
                        Some("Failed to insert/update record"))
         /\ UNCHANGED <<experiments, exptLog>>
    ELSE /\ experiments' = table_after
         /\ last' = DbActionResponse("experiment", request_dict, TRUE,
                        [action |-> PutAction(result_row), data |-> result_row,
                         id |-> result_row.id],
                        PyNone)
         /\ exptLog' = Append(exptLog, [key |-> ExperimentKey(data),
                                        action |-> PutAction(result_row)])

\* put_experiment, lines 536-561: the statement.  When execute raises (a
\* fault, or a NULL owner_id), result_row is never bound and line 594 reads it.
ExperimentSubmitPut(request_dict, fault, data) ==
    IF fault = "execute" \/ data.owner_id = PyNone
    THEN /\ last' = Raised("experiment", request_dict, "submit", "UnboundLocalError")
         /\ UNCHANGED <<experiments, exptLog>>
    ELSE ExperimentSubmitCommit(request_dict, fault, data,
             UpsertExperiment(experiments, data, clock),
             ReturnedRow(UpsertExperiment(experiments, data, clock), data))

\* submit() of the request object er that ExperimentRequest(request_dict)
\* gave, or the exception its construction raised.
ExperimentSubmit(er, request_dict, fault) ==
    IF er.raised
    THEN /\ last' = Raised("experiment", request_dict, "construct", er.exc)
         /\ UNCHANGED <<experiments, exptLog>>
    ELSE IF er.value.method = HTTP_GET
    THEN ExperimentSubmitGet(er.value, request_dict,
             build_column_ordering("exp", er.value.ordering))
    ELSE ExperimentSubmitPut(request_dict, fault, Val(er.value.experiment_data))

\* ExperimentRequest(request_dict) then submit(): what it does to the
\* experiments table and what comes back.  fault is what the database does
\* to the PUT statement.  A None owner_id violates the NOT NULL column, so
\* execute raises.  When execute raises, line 594 reads result_row, which
\* was never bound.
ExperimentRequestSubmit(request_dict, fault) ==
    ExperimentSubmit(ExperimentRequestInit(request_dict), request_dict, fault)

\* A caller builds an ExperimentRequest for a PUT and submits it.  arg
\* keeps what the database did to the statement.
ExperimentPut(request_dict, fault) ==
    /\ clock <= MaxRequests
    /\ clock' = clock + 1
    /\ arg' = [fault |-> fault]
    /\ UNCHANGED <<regions, regionPuts, metric_types, expt_metrics, sessions, harvest, ret>>
    /\ ExperimentRequestSubmit(request_dict, fault)

\* A caller builds an ExperimentRequest for a GET and submits it.
ExperimentGet(request_dict) ==
    /\ clock <= MaxRequests
    /\ clock' = clock + 1
    /\ UNCHANGED <<regions, regionPuts, metric_types, expt_metrics, sessions, harvest, arg, ret>>
    /\ ExperimentRequestSubmit(request_dict, "none")

(***************************************************************************)
(* db_request_registry.py, score_db_base.py                                *)
(***************************************************************************)
\* RequestHandler(description, request, result)
RequestHandler(description, request, result) ==
    [description |-> description, request |-> request, result |-> result]

\* The fields of the RequestHandler namedtuple.
RequestHandlerFields == DOMAIN RequestHandler("", "", "")

request_registry ==
    [region |-> RequestHandler("Add or get regions",
                    "RegionRequest", "DbActionResponse"),
     experiment |-> RequestHandler(
                    "Add or get or update experiment registration data",
                    "ExperimentRequest", "DbActionResponse"),
     expt_metrics |-> RequestHandler(
                    "Add or get or update experiment metrics data",
                    "ExptMetricRequest", "DbActionResponse"),
     metric_types |-> RequestHandler("Add or get or update metric types",
                    "MetricTypeRequest", "DbActionResponse"),
     harvest_innov_stats |-> RequestHandler(
                    "Gather and store innovation statistics from diagnostics files",
                    "HarvestInnovStatsRequest", "DbActionResponse"),
     plot_innov_stats |-> RequestHandler("plot innovation statistics",
                    "PlotInnovStatsRequest", "DbActionResponse")]

\* The names handle_request can read: its parameter, the locals it assigns
\* and the names score_db_base.py imports or defines.
handle_request_names ==
    {"request_info", "db_request_dict", "request_name", "db_request_handler",
     "db_request", "response", "msg", "err", "argparse", "YamlLoader", "dbrr",
     "handle_request", "main"}

\* dbrr.request_registry.get(request_name), line 48; request_name is
\* db_request_dict.get('request_name').  dict.get raises only for a key
\* that cannot be hashed.
RegistryGet(request_name) ==
    IF request_name = PyNone THEN Ok(PyNone)
    ELSE IF Val(request_name).type = "list" THEN Raise("TypeError")
    ELSE IF Val(request_name).v \in DOMAIN request_registry
    THEN Ok(Some(request_registry[Val(request_name).v]))
    ELSE Ok(PyNone)

\* db_request_handler.request(db_request_dict), line 54: the constructor of
\* the registered class.
HandlerInit(request, db_request_dict) ==
    CASE request = "RegionRequest" -> RegionRequestInit(db_request_dict)
      [] request = "ExperimentRequest" -> ExperimentRequestInit(db_request_dict)

\* What a handle_request call got to: the handlers it constructed and the
\* submit() calls it made.
Handled(request_info, constructed, submitted) ==
    [called |-> TRUE, request_info |-> request_info,
     constructed |-> constructed, submitted |-> submitted]

\* handle_request, lines 54-72, for the class request that the registry
\* names and the object db_request its constructor gave.  Line 55 reads
\* request_meta.
HandleConstructed(request, db_request, request_info, dbOk, fault) ==
    IF db_request.raised
    THEN /\ last' = Raised("handle_request", request_info, "construct", db_request.exc)
         /\ ret' = Handled(request_info, 1, 0)
         /\ UNCHANGED <<regions, regionPuts, experiments, exptLog>>
    ELSE IF "request_meta" \notin handle_request_names
    THEN /\ last' = Raised("handle_request", request_info, "construct", "NameError")
         /\ ret' = Handled(request_info, 1, 0)
         /\ UNCHANGED <<regions, regionPuts, experiments, exptLog>>
    ELSE /\ ret' = Handled(request_info, 1, 1)
         /\ IF request = "RegionRequest"
            THEN /\ RegionSubmit(db_request, request_info, dbOk)
                 /\ UNCHANGED <<experiments, exptLog>>
            ELSE /\ ExperimentSubmit(db_request, request_info, fault)
                 /\ UNCHANGED <<regions, regionPuts>>

\* handle_request, lines 48-53, for what the registry lookup gave.  Line 53
\* reads the attribute name of the looked-up handler.
HandleLookedUp(db_request_handler, request_info, dbOk, fault) ==
    IF db_request_handler.raised
    THEN /\ last' = Raised("handle_request", request_info, "lookup", "KeyError")
         /\ ret' = Handled(request_info, 0, 0)
         /\ UNCHANGED <<regions, regionPuts, experiments, exptLog>>
    ELSE IF db_request_handler.value = PyNone \/ "name" \notin RequestHandlerFields
    THEN /\ last' = Raised("handle_request", request_info, "lookup", "AttributeError")
         /\ ret' = Handled(request_info, 0, 0)
         /\ UNCHANGED <<regions, regionPuts, experiments, exptLog>>
    ELSE HandleConstructed(Val(db_request_handler.value).request,
             HandlerInit(Val(db_request_handler.value).request, request_info),
             request_info, dbOk, fault)

\* handle_request(request_info) for a dict.
HandleRequest(request_info, dbOk, fault) ==
    /\ clock <= MaxRequests
    /\ clock' = clock + 1
    /\ UNCHANGED <<metric_types, expt_metrics, sessions, harvest, arg>>
    /\ HandleLookedUp(RegistryGet(Get(request_info, "request_name")),
                      request_info, dbOk, fault)

\* The request names a caller can send: the registered ones, two that are
\* not registered, and one that cannot be hashed.
RequestNames ==
    {PyStr(n) : n \in DOMAIN request_registry \cup {"regions", "bogus"}}
        \cup {PyList("region")}

\* db_request_dict[key] = value for each dict of a set; and the dicts as
\* they are, without the key.
WithRequestName(requests) ==
    {SetItem(r, "request_name", n) : r \in requests, n \in RequestNames}
        \cup requests

(***************************************************************************)
(* expt_metrics.py: remove_metric_duplicates                               *)
(***************************************************************************)
MaxRows == 3

MaxCreated == 2

\* The columns drop_duplicates compares, lines 817-825.
DuplicateSubset ==
    <<"name", "elevation", "elevation_unit", "time_valid", "expt_id",
      "metric_id", "region_id">>

\* The values of a row in the columns of DuplicateSubset.
DuplicateKey(row) == [i \in DOMAIN DuplicateSubset |-> row[DuplicateSubset[i]]]

\* A row of the frame get_experiment_metrics builds, an ExptMetricsData.
MetricRow(id, name, region_id, created_at) ==
    [id |-> id, name |-> name, elevation |-> 0, elevation_unit |-> "plevs",
     value |-> id, time_valid |-> 1, expt_id |-> 1, metric_id |-> 1,
     region_id |-> region_id, created_at |-> created_at]

\* The frames of up to MaxRows rows; the row at position i has id i.
MetricFrames ==
    UNION {[1..n -> {"temperature", "salinity"} \X (1..2) \X (1..MaxCreated)] :
              n \in 0..MaxRows}

\* The frame of a choice of MetricFrames.
MetricFrame(f) == [i \in DOMAIN f |-> MetricRow(i, f[i][1], f[i][2], f[i][3])]

\* The bijections of 1..n.
Permutations1(n) == {f \in [1..n -> 1..n] : \A i, j \in 1..n : f[i] = f[j] => i = j}

\* m_df.sort_values('created_at'): the default sort is not stable, so rows
\* of equal created_at come out in any order.
sort_values(m_df) ==
    {[i \in DOMAIN m_df |-> m_df[f[i]]] : f \in
        {g \in Permutations1(Len(m_df)) :
            \A i, j \in DOMAIN m_df :
                i < j => m_df[g[i]].created_at <= m_df[g[j]].created_at}}

\* The rows of a frame at the positions that satisfy Keep, in order.
RECURSIVE SelectRows(_, _, _)
SelectRows(df, keep, i) ==
    IF i > Len(df) THEN <<>>
    ELSE IF i \in keep THEN <<df[i]>> \o SelectRows(df, keep, i + 1)
    ELSE SelectRows(df, keep, i + 1)

\* A variant of drop_duplicates: keep='first'.
drop_duplicates_keep_first(df) ==
    SelectRows(df, {i \in DOMAIN df :
                       \A j \in DOMAIN df :
                           DuplicateKey(df[j]) = DuplicateKey(df[i]) => j >= i}, 1)

\* df.drop_duplicates(DuplicateSubset, keep='last')
drop_duplicates(df) ==
    SelectRows(df, {i \in DOMAIN df :
                       \A j \in DOMAIN df :
                           DuplicateKey(df[j]) = DuplicateKey(df[i]) => j <= i}, 1)

\* remove_metric_duplicates(m_df): the frames it can return.
remove_metric_duplicates(m_df) == {drop_duplicates(uf) : uf \in sort_values(m_df)}

\* The callers, each with a session of its own (stm.get_session()).
Callers == 1..MaxCallers

\* A session that has sent nothing.
IdleSession ==
    [pc |-> "idle", request |-> <<>>, time_now |-> 0, waited |-> FALSE,
     replaced |-> {}, written |-> {}, committed |-> FALSE]

\* No harvest run was started.
NoHarvest ==
    [pc |-> "idle", date_range |-> <<>>, hv_files |-> <<>>, file |-> 0,
     loop_count |-> 0, log |-> <<>>]

\* State of the handlers that a function applied on its own leaves alone.
HandlersIdle ==
    /\ regions = {}
    /\ experiments = {}
    /\ clock = 1
    /\ last = NoRequest
    /\ regionPuts = [h \in AllHashes |-> 0]
    /\ exptLog = <<>>
    /\ metric_types = {}
    /\ expt_metrics = {}
    /\ sessions = [p \in Callers |-> IdleSession]
    /\ harvest = NoHarvest

InitDedup ==
    /\ HandlersIdle
    /\ arg \in {MetricFrame(f) : f \in MetricFrames}
    /\ ret = [done |-> FALSE]

RemoveMetricDuplicates ==
    /\ ~ret.done
    /\ \E uf \in remove_metric_duplicates(arg) : ret' = [done |-> TRUE, uf |-> uf]
    /\ UNCHANGED <<regions, experiments, clock, last, regionPuts, exptLog,
                 metric_types, expt_metrics, sessions, harvest, arg>>

NextDedup == RemoveMetricDuplicates

SpecDedup == InitDedup /\ [][NextDedup]_vars

(***************************************************************************)
(* get_time_filter of experiments.py and of expt_metrics.py                *)
(***************************************************************************)
\* The time columns the Experiment handler filters on (lines 370-380).
ExperimentTimeColumns ==
    {"cycle_start", "cycle_stop", "wallclock_start", "wallclock_end"}

\* The time columns the ExperimentMetric handler filters on: those of the
\* experiment sub-filter (lines 304-311) and time_valid (line 574).
ExptMetricTimeColumns ==
    {"cycle_start", "cycle_stop", "wallclock_start", "time_valid"}

\* The bounds dicts of a time column: each of exact, from, to a date string
\* or missing.
TimeBounds ==
    UNION {[keys -> DateStrings] :
              keys \in SUBSET {EXACT_DATETIME, FROM_DATETIME, TO_DATETIME}}

InitTimeFilter ==
    /\ HandlersIdle
    /\ arg \in [module : {"experiments", "expt_metrics"},
                key : ExperimentTimeColumns \cup ExptMetricTimeColumns,
                bounds : TimeBounds]
    /\ \/ arg.module = "experiments" /\ arg.key \in ExperimentTimeColumns
       \/ arg.module = "expt_metrics" /\ arg.key \in ExptMetricTimeColumns
    /\ ret = [done |-> FALSE]

\* experiments.get_time_filter on a filters dict that holds the bounds.
ExperimentsGetTimeFilter ==
    /\ ~ret.done
    /\ arg.module = "experiments"
    /\ ret' = [done |-> TRUE,
               result |-> experiments_get_time_filter(
                              Some(SetItem(<<>>, arg.key, arg.bounds)), arg.key, <<>>)]
    /\ UNCHANGED <<regions, experiments, clock, last, regionPuts, exptLog,
                 metric_types, expt_metrics, sessions, harvest, arg>>

\* expt_metrics.get_time_filter on a filters dict that holds the bounds.
ExptMetricsGetTimeFilter ==
    /\ ~ret.done
    /\ arg.module = "expt_metrics"
    /\ ret' = [done |-> TRUE,
               result |-> expt_metrics_get_time_filter(
                              Some(SetItem(<<>>, arg.key, arg.bounds)), arg.key, <<>>)]
    /\ UNCHANGED <<regions, experiments, clock, last, regionPuts, exptLog,
                 metric_types, expt_metrics, sessions, harvest, arg>>

NextTimeFilter == ExperimentsGetTimeFilter \/ ExptMetricsGetTimeFilter

SpecTimeFilter == InitTimeFilter /\ [][NextTimeFilter]_vars

(***************************************************************************)
(* build_column_ordering                                                   *)
(***************************************************************************)
MaxOrdering == 2

\* The values an ordering item can hold under 'name' and under 'order_by'.
OrderingNames ==
    {PyNone, Some(PyStr("name")), Some(PyStr("created_at")),
     Some(PyStr("bogus")), Some(PyInt("1"))}

OrderingDirs ==
    {PyNone, Some(PyStr(ASCENDING)), Some(PyStr(DESCENDING)),
     Some(PyStr("up")), Some(PyInt("1"))}

\* The items of an ordering list: dicts, and one item that is not a dict.
OrderingItems ==
    [isdict : {TRUE}, name : OrderingNames, order_by : OrderingDirs]
        \cup {[isdict |-> FALSE, name |-> PyNone, order_by |-> PyNone]}

\* params.get('ordering'): None, something that is not a list, a list.
Orderings ==
    {PyNone, Some([islist |-> FALSE, items |-> <<>>])} \cup
    {Some([islist |-> TRUE, items |-> items]) :
        items \in UNION {[1..n -> OrderingItems] : n \in 0..MaxOrdering}}

InitOrdering ==
    /\ HandlersIdle
    /\ arg \in [cls : DOMAIN Entities, ordering : Orderings]
    /\ ret = [done |-> FALSE]

BuildColumnOrdering ==
    /\ ~ret.done
    /\ ret' = [done |-> TRUE,
               result |-> build_column_ordering(arg.cls, arg.ordering)]
    /\ UNCHANGED <<regions, experiments, clock, last, regionPuts, exptLog,
                 metric_types, expt_metrics, sessions, harvest, arg>>

NextOrdering == BuildColumnOrdering

SpecOrdering == InitOrdering /\ [][NextOrdering]_vars

(***************************************************************************)
(* metric_types.py                                                         *)
(***************************************************************************)
\* The unique_metric_type constraint (score_table_models.py 140-147).
MetricTypeKey(row) ==
    <<row.name, row.measurement_type, row.measurement_units, row.stat_type>>

\* Whether a stored row conflicts with the row to insert: a NULL in a key
\* column conflicts with nothing.
MetricTypeConflict(row, data) ==
    /\ MetricTypeKey(row) = MetricTypeKey(data)
    /\ \A i \in 1..4 : MetricTypeKey(data)[i] # NULL

\* get_metric_type_from_body(body); body is request_dict.get('body').
\* json.loads of a missing description, or of one that is not JSON, raises;
\* MetricType checks nothing.
get_metric_type_from_body(body) ==
    IF body = PyNone THEN Raise("TypeError")
    ELSE IF json_loads(Get(Val(body), "description")).raised THEN Raise("ValueError")
    ELSE Ok([name |-> ColumnValue(Get(Val(body), "name")),
             measurement_type |-> ColumnValue(Get(Val(body), "measurement_type")),
             measurement_units |-> ColumnValue(Get(Val(body), "measurement_units")),
             stat_type |-> ColumnValue(Get(Val(body), "stat_type")),
             description |-> json_loads(Get(Val(body), "description")).value])

\* metric_types.get_string_filter(filters, cls, key, constructed_filter):
\* the statements of experiments.get_string_filter.
metric_types_get_string_filter(filters, key, constructed_filter) ==
    experiments_get_string_filter(filters, key, constructed_filter)

\* metric_types.construct_filters(filters)
metric_types_construct_filters(filters) ==
    Bind(metric_types_get_string_filter(filters, "name", <<>>), LAMBDA f1 :
    Bind(metric_types_get_string_filter(filters, "measurement_type", f1), LAMBDA f2 :
    Bind(metric_types_get_string_filter(filters, "measurement_units", f2), LAMBDA f3 :
    metric_types_get_string_filter(filters, "stat_type", f3))))

\* MetricTypeRequest.__post_init__, lines 295-305: filters, ordering and
\* record_limit of a GET.
MetricTypeRequestGetInit(params) ==
    IF params = PyNone
    THEN Ok([method |-> HTTP_GET, filters |-> PyNone, ordering |-> PyNone,
             record_limit |-> PyNone, metric_type_data |-> PyNone])
    ELSE Bind(metric_types_construct_filters(Get(Val(params), "filters")),
              LAMBDA cf :
                  Ok([method |-> HTTP_GET, filters |-> Some(cf),
                      ordering |-> ExperimentRequestOrdering(params),
                      record_limit |-> ExperimentRequestRecordLimit(params),
                      metric_type_data |-> PyNone]))

\* MetricTypeRequest.__post_init__
MetricTypeRequestInit(request_dict) ==
    Bind(validate_method(Get(request_dict, "method")), LAMBDA method :
        IF method = HTTP_PUT
        THEN Bind(get_metric_type_from_body(Get(request_dict, "body")),
                  LAMBDA metric_type :
                      Ok([method |-> method, filters |-> Some(<<>>),
                          ordering |-> PyNone, record_limit |-> PyNone,
                          metric_type_data |-> Some(metric_type)]))
        ELSE MetricTypeRequestGetInit(Get(request_dict, "params")))

\* A variant of UpsertMetricType: the row in conflict is deleted and the new
\* one inserted.
UpsertMetricTypeReplacing(table, data, time_now) ==
    {row \in table : ~MetricTypeConflict(row, data)}
        \cup {[id |-> Cardinality(table) + 1, name |-> data.name,
                measurement_type |-> data.measurement_type,
                measurement_units |-> data.measurement_units,
                stat_type |-> data.stat_type,
                description |-> data.description,
                created_at |-> time_now, updated_at |-> PyNone]}

\* put_metric_type, lines 337-357: INSERT ... ON CONFLICT ON CONSTRAINT
\* unique_metric_type DO UPDATE SET description, updated_at.  The table
\* after the statement.
UpsertMetricType(table, data, time_now) ==
    IF \E row \in table : MetricTypeConflict(row, data)
    THEN {IF MetricTypeConflict(row, data)
          THEN [row EXCEPT !.description = data.description,
                           !.updated_at = Some(time_now)]
          ELSE row : row \in table}
    ELSE table \cup {[id |-> Cardinality(table) + 1, name |-> data.name,
                      measurement_type |-> data.measurement_type,
                      measurement_units |-> data.measurement_units,
                      stat_type |-> data.stat_type,
                      description |-> data.description,
                      created_at |-> time_now, updated_at |-> PyNone]}

\* .returning(mt) ... result.fetchone(): the row the statement wrote.
ReturnedMetricType(table_after, data) ==
    CHOOSE row \in table_after :
        /\ MetricTypeKey(row) = MetricTypeKey(data)
        /\ \A other \in table_after :
               MetricTypeKey(other) = MetricTypeKey(data) => other.id <= row.id

\* MetricTypeRequest.failed_request(error_msg)
metric_types_failed_request(request_dict) ==
    DbActionResponse("metric_types", request_dict, FALSE, PyNone,
                     Some("Failed to insert metric type record"))

\* put_metric_type from the commit on, lines 372-398.
MetricTypeSubmitCommit(request_dict, fault, table_after, result_row) ==
    IF fault = "commit"
    THEN /\ last' = DbActionResponse("metric_types", request_dict, FALSE,
                        [action |-> INSERT, data |-> result_row,
                         id |-> result_row.id],
                        Some("Failed to insert/update record"))
         /\ UNCHANGED metric_types
    ELSE /\ metric_types' = table_after
         /\ last' = DbActionResponse("metric_types", request_dict, TRUE,
                        [action |-> PutAction(result_row), data |-> result_row,
                         id |-> result_row.id],
                        PyNone)

\* submit() of a PUT, lines 322-330, and put_metric_type.  When execute
\* raises (a fault, or a NULL in a NOT NULL column) result_row is never bound,
\* line 384 raises UnboundLocalError and submit turns it into a failed
\* request.
MetricTypeSubmitPut(request_dict, fault, data) ==
    IF fault = "execute" \/ data.name = NULL \/ data.measurement_type = NULL
    THEN /\ last' = metric_types_failed_request(request_dict)
         /\ UNCHANGED metric_types
    ELSE MetricTypeSubmitCommit(request_dict, fault,
             UpsertMetricType(metric_types, data, clock),
             ReturnedMetricType(UpsertMetricType(metric_types, data, clock), data))

\* get_metric_types, lines 401-470: the responses it can return for the
\* ordering build_column_ordering gave, or the exception it lets through.
\* The limit is applied when record_limit is set and positive.
MetricTypeSubmitGet(mtr, request_dict, column_ordering) ==
    /\ UNCHANGED metric_types
    /\ IF column_ordering.raised
       THEN last' = Raised("metric_types", request_dict, "submit", column_ordering.exc)
       ELSE \E records \in get_experiments(metric_types, mtr.filters,
                               IF mtr.record_limit # PyNone /\ Val(mtr.record_limit) > 0
                               THEN mtr.record_limit ELSE PyNone) :
                last' = DbActionResponse("metric_types", request_dict, TRUE,
                            IF records # {}
                            THEN [record_count |-> Cardinality(records),
                                  records |-> records]
                            ELSE [record_count |-> 0],
                            PyNone)

\* submit() of the request object mtr that MetricTypeRequest(request_dict)
\* gave, or the exception its construction raised.
MetricTypeSubmit(mtr, request_dict, fault) ==
    IF mtr.raised
    THEN /\ last' = Raised("metric_types", request_dict, "construct", mtr.exc)
         /\ UNCHANGED metric_types
    ELSE IF mtr.value.method = HTTP_GET
    THEN MetricTypeSubmitGet(mtr.value, request_dict,
             build_column_ordering("mts", mtr.value.ordering))
    ELSE MetricTypeSubmitPut(request_dict, fault, Val(mtr.value.metric_type_data))

\* A caller builds a MetricTypeRequest and submits it.  arg keeps what the
\* database did to the statement.
MetricTypeRequestSubmit(request_dict, fault) ==
    /\ clock <= MaxRequests
    /\ clock' = clock + 1
    /\ arg' = [fault |-> fault]
    /\ UNCHANGED <<regions, regionPuts, experiments, exptLog, expt_metrics, sessions, harvest, ret>>
    /\ MetricTypeSubmit(MetricTypeRequestInit(request_dict), request_dict, fault)

(***************************************************************************)
(* expt_metrics.py: ExptMetricRequest                                      *)
(***************************************************************************)
\* expt_metrics.validate_list_of_strings(values); values is d.get(...): a
\* str, a list of items, or None.
expt_metrics_validate_list_of_strings(values) ==
    IF values = PyNone THEN Raise("TypeError")
    ELSE IF Val(values).type = "str" THEN Ok({Val(values).v})
    ELSE IF Val(values).type # "list" THEN Raise("TypeError")
    ELSE IF \E i \in DOMAIN Val(values).v : Val(values).v[i].type # "str"
    THEN Raise("TypeError")
    ELSE Ok({Val(values).v[i].v : i \in DOMAIN Val(values).v})

\* expt_metrics.get_string_filter(filter_dict, cls, key, constructed_filter,
\* key_name); filter_dict is d.get(...).
expt_metrics_get_string_filter(filter_dict, key, constructed_filter, key_name) ==
    IF filter_dict = PyNone THEN Raise("TypeError")
    ELSE Let(Get(Val(filter_dict), key), LAMBDA string_flt :
             IF string_flt = PyNone THEN Ok(constructed_filter)
             ELSE IF Get(Val(string_flt), "like") # PyNone
             THEN Ok(SetItem(constructed_filter, key_name,
                        [col |-> key, op |-> "like",
                         lo |-> Val(Get(Val(string_flt), "like")),
                         hi |-> Val(Get(Val(string_flt), "like"))]))
             ELSE Bind(expt_metrics_validate_list_of_strings(
                           Get(Val(string_flt), "exact")),
                       LAMBDA exact_match_filter :
                           Ok(SetItem(constructed_filter, key_name,
                                  [col |-> key, op |-> "in",
                                   lo |-> exact_match_filter,
                                   hi |-> exact_match_filter]))))

\* get_experiments_filter(filter_dict, constructed_filter); filter_dict is
\* self.filters.get('experiment'), and None is not a dict.
get_experiments_filter(filter_dict, constructed_filter) ==
    IF filter_dict = PyNone THEN Raise("TypeError")
    ELSE
    Bind(expt_metrics_get_string_filter(filter_dict, "name", constructed_filter,
                                        "experiment_name"), LAMBDA f1 :
    Bind(expt_metrics_get_time_filter(filter_dict, "cycle_start", f1), LAMBDA f2 :
    Bind(expt_metrics_get_time_filter(filter_dict, "cycle_stop", f2), LAMBDA f3 :
    expt_metrics_get_time_filter(filter_dict, "wallclock_start", f3))))

\* get_metric_types_filter(filter_dict, constructed_filter)
get_metric_types_filter(filter_dict, constructed_filter) ==
    IF filter_dict = PyNone THEN Ok(constructed_filter)
    ELSE
    Bind(expt_metrics_get_string_filter(filter_dict, "name", constructed_filter,
                                        "metric_type_name"), LAMBDA f1 :
    Bind(expt_metrics_get_string_filter(filter_dict, "measurement_type", f1,
                                        "metric_type_measurement_type"), LAMBDA f2 :
    Bind(expt_metrics_get_string_filter(filter_dict, "measurement_units", f2,
                                        "metric_type_measurement_units"), LAMBDA f3 :
    expt_metrics_get_string_filter(filter_dict, "stat_type", f3,
                                   "metric_type_stat_type"))))

\* get_regions_filter(filter_dict, constructed_filter)
get_regions_filter(filter_dict, constructed_filter) ==
    IF filter_dict = PyNone THEN Ok(constructed_filter)
    ELSE expt_metrics_get_string_filter(filter_dict, "name", constructed_filter,
                                        "rgs_name")

\* ExptMetricRequest.construct_filters(query), lines 557-583: the filter
\* clauses it adds to the query; filters is self.filters.
expt_metrics_construct_filters(filters) ==
    IF filters = PyNone THEN Raise("ExptMetricsError")
    ELSE
    Bind(get_experiments_filter(Get(Val(filters), "experiment"), <<>>), LAMBDA f1 :
    Bind(get_metric_types_filter(Get(Val(filters), "metric_types"), f1), LAMBDA f2 :
    Bind(get_regions_filter(Get(Val(filters), "regions"), f2), LAMBDA f3 :
    Bind(expt_metrics_get_time_filter(filters, "time_valid", f3), LAMBDA f4 :
    expt_metrics_get_string_filter(filters, "elevation_unit", f4,
                                   "elevation_unit")))))

\* The joins of get_experiment_metrics, lines 715-723, and the record it
\* builds of each joined row, lines 739-756, with the columns of the joined
\* tables that the filter clauses read, under the keys construct_filters
\* gives the clauses.
JoinedMetrics ==
    {[id |-> m.id, name |-> t.name, elevation |-> m.elevation,
      elevation_unit |-> m.elevation_unit, value |-> m.value,
      time_valid |-> m.time_valid, expt_id |-> e.id, expt_name |-> e.name,
      wallclock_start |-> e.wallclock_start, metric_id |-> t.id,
      metric_type |-> t.measurement_type, metric_unit |-> t.measurement_units,
      metric_stat_type |-> t.stat_type, region_id |-> r.id, region |-> r.name,
      created_at |-> m.created_at,
      experiment_name |-> e.name, cycle_start |-> e.cycle_start,
      cycle_stop |-> e.cycle_stop, metric_type_name |-> t.name,
      metric_type_measurement_type |-> t.measurement_type,
      metric_type_measurement_units |-> t.measurement_units,
      metric_type_stat_type |-> t.stat_type, rgs_name |-> r.name] :
        <<m, e, t, r>> \in
            {x \in expt_metrics \X experiments \X metric_types \X regions :
                /\ x[1].experiment_id = x[2].id
                /\ x[1].metric_type_id = x[3].id
                /\ x[1].region_id = x[4].id}}

\* The fields of ExptMetricsData, lines 82-102.
ExptMetricsDataFields ==
    {"id", "name", "elevation", "elevation_unit", "value", "time_valid",
     "expt_id", "expt_name", "wallclock_start", "metric_id", "metric_type",
     "metric_unit", "metric_stat_type", "region_id", "region", "created_at"}

\* ExptMetricsData of a joined row.
ExptMetricsData(j) == [f \in ExptMetricsDataFields |-> j[f]]

\* The orders in which a query can return a set of rows.
Frames(rows) ==
    {f \in [1..Cardinality(rows) -> rows] : \A i, j \in DOMAIN f : f[i] = f[j] => i = j}

\* The value a record built of a queried row holds of the column col of
\* the expt_metrics table.
MetricColumn(record, col) ==
    IF col = "experiment_id" THEN record.expt_id
    ELSE IF col = "metric_type_id" THEN record.metric_id
    ELSE record[col]

\* ORDER BY the items of column_ordering from item i on: whether the row a
\* can come before the row b.  Rows that are equal in every item come in
\* any order.
RECURSIVE MayPrecede(_, _, _, _)
MayPrecede(column_ordering, i, a, b) ==
    IF i > Len(column_ordering) THEN TRUE
    ELSE IF MetricColumn(a, column_ordering[i].col) =
            MetricColumn(b, column_ordering[i].col)
    THEN MayPrecede(column_ordering, i + 1, a, b)
    ELSE IF column_ordering[i].dir = ASCENDING
    THEN MetricColumn(a, column_ordering[i].col) <
            MetricColumn(b, column_ordering[i].col)
    ELSE MetricColumn(a, column_ordering[i].col) >
            MetricColumn(b, column_ordering[i].col)

\* q.order_by(ordering_item) for every item, lines 729-732, and q.all():
\* the orders in which the query returns the rows.
QueryFrames(rows, column_ordering) ==
    {f \in Frames(rows) :
        column_ordering # PyNone =>
            \A i, j \in DOMAIN f :
                i < j => MayPrecede(Val(column_ordering), 1, f[i], f[j])}

\* A variant of expt_metrics_failed_request: submit() without its try
\* blocks, the exception leaving it.
expt_metrics_failed_request_uncaught(request_dict) ==
    Raised("expt_metrics", request_dict, "submit", "Exception")

\* ExptMetricRequest.failed_request(error_msg)
expt_metrics_failed_request(request_dict) ==
    DbActionResponse("expt_metrics", request_dict, FALSE, PyNone,
                     Some("Failed experiment metrics request."))

\* ExptMetricRequest.__post_init__: filters, ordering and record_limit are
\* the values of params, as they come.
ExptMetricRequestInit(request_dict) ==
    Bind(validate_method(Get(request_dict, "method")), LAMBDA method :
    Let(Get(request_dict, "params"), LAMBDA params :
        Ok([method |-> method, body |-> Get(request_dict, "body"),
            filters |-> IF params = PyNone THEN PyNone
                        ELSE Get(Val(params), "filters"),
            ordering |-> IF params = PyNone THEN PyNone
                         ELSE Get(Val(params), "ordering"),
            record_limit |-> IF params = PyNone THEN PyNone
                             ELSE Get(Val(params), "record_limit")])))

\* get_experiment_metrics, lines 710-804, for the filter clauses and the
\* ordering it built: the rows q.all() returns in some order, without the
\* duplicates; details holds them when there are any.  dbOk is whether
\* the query runs.  self.record_limit is not read.
ExptMetricSubmitGet(request_dict, constructed_filter, column_ordering, dbOk) ==
    /\ UNCHANGED expt_metrics
    /\ IF constructed_filter.raised \/ column_ordering.raised \/ ~dbOk
       THEN last' = expt_metrics_failed_request(request_dict)
       ELSE \E metrics \in QueryFrames({ExptMetricsData(j) : j \in
                      {x \in JoinedMetrics :
                          \A key \in DOMAIN constructed_filter.value :
                              Satisfies(constructed_filter.value[key], x[key])}},
                      column_ordering.value) :
            \E unique_metrics \in remove_metric_duplicates(metrics) :
                last' = DbActionResponse("expt_metrics", request_dict, TRUE,
                            IF Len(unique_metrics) > 0
                            THEN [record_count |-> Len(unique_metrics),
                                  records |-> unique_metrics]
                            ELSE [record_count |-> 0],
                            PyNone)

\* ExptMetricInputData(name, region_name, elevation, elevation_unit, value,
\* time_valid)
ExptMetricInputData(name, region_name, elevation, elevation_unit, value, time_valid) ==
    [type |-> "ExptMetricInputData", name |-> name, region_name |-> region_name,
     elevation |-> elevation, elevation_unit |-> elevation_unit,
     value |-> value, time_valid |-> time_valid]

\* A dict with the one key, or without it when the value is None.
DictOf(key, value) ==
    IF value = PyNone THEN <<>> ELSE [k \in {key} |-> Val(value)]

\* get_expt_record, lines 447-464: the experiment request it builds.
expt_request(body) ==
    [method |-> HTTP_GET,
     params |->
         [filters |-> [name |-> DictOf("exact", Get(body, "expt_name")),
                       wallclock_start |->
                           DictOf("exact", Get(body, "expt_wallclock_start"))],
          ordering |-> [islist |-> TRUE,
                        items |-> <<[isdict |-> TRUE,
                                     name |-> Some(PyStr("wallclock_start")),
                                     order_by |-> Some(PyStr(DESCENDING))]>>],
          record_limit |-> 1]]

\* get_expt_record, lines 468-470: ExperimentRequest(expt_request) and its
\* submit(); the records of the response.  The filters name the columns of
\* unique_experiment, so the query matches one row at most.
get_expt_record_results(body) ==
    Bind(ExperimentRequestInit(expt_request(body)), LAMBDA er :
    Bind(build_column_ordering("exp", er.ordering), LAMBDA column_ordering :
         Ok(CHOOSE records \in
                get_experiments(experiments, er.filters, er.record_limit) : TRUE)))

\* get_expt_record(body); body is self.body.  The exceptions of lines
\* 439-470 leave it as they are; a response without records is an
\* ExptMetricsError.
get_expt_record(body) ==
    IF body = PyNone THEN Raise("AttributeError")
    ELSE IF /\ Get(Val(body), "expt_wallclock_start") # PyNone
            /\ strptime(Val(Get(Val(body), "expt_wallclock_start")),
                        IF Get(Val(body), "datestr_format") = PyNone
                        THEN DEFAULT_DATETIME_FORMAT_STR
                        ELSE Val(Get(Val(body), "datestr_format"))).raised
    THEN Raise("ValueError")
    ELSE Bind(get_expt_record_results(Val(body)), LAMBDA records :
              IF records = {} THEN Raise("ExptMetricsError") ELSE Ok(records))

\* get_first_expt_id_from_df(record): the id of the first row.
get_first_expt_id_from_df(record) ==
    IF record = {} THEN Raise("ExptMetricsError")
    ELSE Ok((CHOOSE row \in record : TRUE).id)

\* The names regions.py defines, which expt_metrics.py reads as rg.<name>.
regions_module_names ==
    {"namedtuple", "dataclass", "field", "datetime", "json", "DbActionResponse",
     "stm", "rg", "DataFrame", "insert", "inspect", "MIN_LONG", "MAX_LONG",
     "HTTP_GET", "HTTP_PUT", "PARAM_FILTER_TYPE", "FILTER__NONE",
     "FILTER__BY_REGION_NAME", "FILTER__BY_REGION_DATA", "VALID_METHODS",
     "VALID_FILTER_TYPES", "EQUATORIAL", "GLOBAL", "NORTH_HEMIS", "TROPICS",
     "SOUTH_HEMIS", "TEST_SOUTH_HEMIS", "DEFAULT_REGION_DEFS", "RegionData",
     "Region", "DEFAULT_REGIONS", "DEFAULT_REGION_NAMES",
     "validate_list_of_regions", "validate_list_of_strings", "validate_method",
     "validate_body", "get_filter_type", "RegionRequest"}

\* dict(zip(df.name, df.id))[name]: the id of a row of that name.
IdOfName(table, name) == (CHOOSE row \in table : row.name = name).id

\* parse_metrics_data, lines 630-664, for the list items of metrics: the
\* regions of the names are looked up, then the metric types; every item
\* becomes a record, whatever the table holds.
ParsedRecords(items, expt_id) ==
    IF Cardinality({r \in regions : \E i \in DOMAIN items : r.name = items[i].region_name})
           # Cardinality({items[i].region_name : i \in DOMAIN items})
    THEN Raise("ExptMetricsError")
    ELSE IF metric_types = {} THEN Raise("TypeError")
    ELSE IF \E i \in DOMAIN items : \A t \in metric_types : t.name # items[i].name
    THEN Raise("KeyError")
    ELSE Ok([i \in DOMAIN items |->
                [experiment_id |-> expt_id,
                 metric_type_id |-> IdOfName(metric_types, items[i].name),
                 region_id |-> IdOfName(regions, items[i].region_name),
                 elevation |-> items[i].elevation,
                 elevation_unit |-> items[i].elevation_unit,
                 value |-> items[i].value,
                 time_valid |-> items[i].time_valid]])

\* parse_metrics_data(metrics); metrics is body.get('metrics').  Line 627
\* reads rg.get_regions_from_name_list.
parse_metrics_data(metrics, expt_id) ==
    IF metrics = PyNone \/ Val(metrics).type # "list" THEN Raise("ExptMetricsError")
    ELSE IF \E i \in DOMAIN Val(metrics).v :
                Val(metrics).v[i].type # "ExptMetricInputData"
    THEN Raise("ExptMetricsError")
    ELSE IF "get_regions_from_name_list" \notin regions_module_names
    THEN Raise("AttributeError")
    ELSE ParsedRecords(Val(metrics).v, expt_id)

\* put_expt_metrics_data, lines 684-686: the records to save.
ExptMetricRecords(body) ==
    Bind(get_expt_record(body), LAMBDA expt_record :
    Bind(get_first_expt_id_from_df(expt_record), LAMBDA expt_id :
         parse_metrics_data(Get(Val(body), "metrics"), expt_id)))

\* The moment score_table_models.py was imported: the default of
\* ExperimentMetric.created_at is datetime.utcnow() evaluated there.
IMPORT_TIME == 0

\* session.bulk_save_objects(records): the rows of the records.
BulkSaveObjects(table, records) ==
    {[id |-> Cardinality(table) + i, experiment_id |-> records[i].experiment_id,
      metric_type_id |-> records[i].metric_type_id,
      region_id |-> records[i].region_id, elevation |-> records[i].elevation,
      elevation_unit |-> records[i].elevation_unit, value |-> records[i].value,
      time_valid |-> records[i].time_valid, created_at |-> IMPORT_TIME] :
        i \in DOMAIN records}

\* A variant of ExptMetricSubmitPut: the exception raised on the way to the
\* records is printed like the one of the insert, and nothing is returned.
ExptMetricSubmitPutSwallowing(request_dict, records, dbOk) ==
    /\ last' = ReturnedNone("expt_metrics", request_dict)
    /\ expt_metrics' = IF records.raised \/ ~dbOk THEN expt_metrics
                       ELSE expt_metrics \cup
                                BulkSaveObjects(expt_metrics, records.value)

\* submit() of a PUT, lines 531-543, and put_expt_metrics_data, lines
\* 687-707, for the records to save or the exception raised on the way to
\* them.  dbOk is whether bulk_save_objects and commit run through; when
\* they do not, the exception is printed.  put_expt_metrics_data has no
\* return statement.
ExptMetricSubmitPut(request_dict, records, dbOk) ==
    IF records.raised
    THEN /\ last' = expt_metrics_failed_request(request_dict)
         /\ UNCHANGED expt_metrics
    ELSE /\ last' = ReturnedNone("expt_metrics", request_dict)
         /\ expt_metrics' = IF dbOk
                            THEN expt_metrics \cup
                                     BulkSaveObjects(expt_metrics, records.value)
                            ELSE FailedBulkSave(expt_metrics,
                                     BulkSaveObjects(expt_metrics, records.value))

\* submit() of the request object emr that ExptMetricRequest(request_dict)
\* gave, or the exception its construction raised.
ExptMetricSubmit(emr, request_dict, dbOk) ==
    IF emr.raised
    THEN /\ last' = Raised("expt_metrics", request_dict, "construct", emr.exc)
         /\ UNCHANGED expt_metrics
    ELSE IF emr.value.method = HTTP_GET
    THEN ExptMetricSubmitGet(request_dict,
             expt_metrics_construct_filters(emr.value.filters),
             build_column_ordering("ex_mt", emr.value.ordering), dbOk)
    ELSE \E records \in {ExptMetricRecords(emr.value.body)} :
             ExptMetricSubmitPut(request_dict, records, dbOk)

\* A caller builds an ExptMetricRequest and submits it.  arg keeps whether
\* the database ran the statements of the request.
ExptMetricRequestSubmit(request_dict, dbOk) ==
    /\ clock <= MaxRequests
    /\ clock' = clock + 1
    /\ arg' = [dbOk |-> dbOk]
    /\ UNCHANGED <<regions, regionPuts, experiments, exptLog, metric_types, sessions, harvest, ret>>
    /\ ExptMetricSubmit(ExptMetricRequestInit(request_dict), request_dict, dbOk)

(***************************************************************************)
(* The metric handlers against a database that holds rows already.        *)
(***************************************************************************)
\* The rows two Region PUTs, an Experiment PUT and a MetricType PUT stored.
StoredRegions ==
    CHOOSE rows \in NewRegionRows({}, {ValidatedRegion[GLOBAL].value,
                                       ValidatedRegion[TROPICS].value}, 0) : TRUE

\* The rows after a third Region PUT, of a second band named 'global'.
StoredRegionsOfOneName ==
    StoredRegions \cup
        (CHOOSE rows \in NewRegionRows(StoredRegions,
                             {ValidatedRegion[GLOBAL_BAND].value}, 1) : TRUE)

StoredExperiments ==
    UpsertExperiment({}, ExperimentInit(Some("exp1"), 1, 2, Some("owner"),
                                        PyNone, PyNone, Some(HERA), 1, EPOCH,
                                        <<>>).value, 0)

StoredMetricTypes ==
    UpsertMetricType({}, [name |-> "temperature", measurement_type |-> "rmsd",
                          measurement_units |-> "K", stat_type |-> "mean",
                          description |-> <<>>], 0)

\* The metric a harvest stores for a region at a valid time.
StoredMetric(id, region_name, time_valid, created_at) ==
    [id |-> id, experiment_id |-> 1, metric_type_id |-> 1,
     region_id |-> IdOfName(StoredRegions, region_name), elevation |-> 0,
     elevation_unit |-> "plevs", value |-> id, time_valid |-> time_valid,
     created_at |-> created_at]

\* The expt_metrics tables: empty, one row, two rows of different valid
\* times, the same metric stored twice by two runs, and two metrics of
\* different valid times stored by two runs.
StoredMetrics ==
    {{}, {StoredMetric(1, "global", 1, IMPORT_TIME)},
     {StoredMetric(1, "global", 1, IMPORT_TIME),
      StoredMetric(2, "global", 2, IMPORT_TIME)},
     {StoredMetric(1, "global", 1, IMPORT_TIME), StoredMetric(2, "global", 1, 1)},
     {StoredMetric(1, "global", 1, IMPORT_TIME), StoredMetric(2, "global", 2, 1)}}

\* The databases a request can find: empty, without the experiment, without
\* the regions, without the metric types, with all of them and metrics, and
\* with two regions of one name.
\* Their rows were stored at the times 0 and 1.
Databases ==
    {[regions |-> r, experiments |-> e, metric_types |-> t, expt_metrics |-> {}] :
        r \in {{}, StoredRegions}, e \in {{}, StoredExperiments},
        t \in {{}, StoredMetricTypes}}
    \cup {[regions |-> StoredRegions, experiments |-> StoredExperiments,
           metric_types |-> StoredMetricTypes, expt_metrics |-> m] :
             m \in StoredMetrics}
    \cup {[regions |-> StoredRegionsOfOneName, experiments |-> StoredExperiments,
           metric_types |-> StoredMetricTypes, expt_metrics |-> {}]}

InitExptMetric ==
    /\ \E db \in Databases :
           /\ regions = db.regions
           /\ experiments = db.experiments
           /\ metric_types = db.metric_types
           /\ expt_metrics = db.expt_metrics
    /\ sessions = [p \in Callers |-> IdleSession]
    /\ harvest = NoHarvest
    /\ clock = 2
    /\ last = NoRequest
    /\ regionPuts = [h \in AllHashes |-> 0]
    /\ exptLog = <<>>
    /\ arg = <<>>
    /\ ret = [called |-> FALSE]

\* The filters of an ExptMetric GET: none of the three sub-mappings, the
\* experiment one alone (empty, or with a name), with a region name, with a
\* range of valid times (in order, and 'to' before 'from'), and a string
\* filter that holds neither 'like' nor 'exact'.
ExptMetricFilters ==
    {<<>>,
     [experiment |-> <<>>],
     [experiment |-> [name |-> [exact |-> PyStr("exp1")]]],
     [experiment |-> <<>>, regions |-> [name |-> [exact |-> PyList(<<PyStr("global")>>)]]],
     [experiment |-> <<>>, metric_types |-> <<>>, regions |-> <<>>],
     [experiment |-> <<>>, time_valid |-> [from |-> DateStr(1), to |-> DateStr(2)]],
     [experiment |-> <<>>, time_valid |-> [from |-> DateStr(2), to |-> DateStr(1)]],
     [experiment |-> <<>>, elevation_unit |-> [unknown |-> PyStr("plevs")]]}

\* An ordering of one item.
OrderingBy(name, order_by) ==
    [islist |-> TRUE,
     items |-> <<[isdict |-> TRUE, name |-> Some(PyStr(name)),
                  order_by |-> Some(PyStr(order_by))]>>]

ExptMetricGetRequests ==
    {[method |-> HTTP_GET], [method |-> HTTP_GET, params |-> <<>>]}
    \cup {[method |-> HTTP_GET, params |-> [filters |-> f]] : f \in ExptMetricFilters}
    \cup {[method |-> HTTP_GET,
           params |-> [filters |-> [experiment |-> <<>>], record_limit |-> 1]],
          [method |-> HTTP_GET,
           params |-> [filters |-> [experiment |-> <<>>],
                       ordering |-> OrderingBy("time_valid", DESCENDING)]],
          [method |-> HTTP_GET,
           params |-> [filters |-> [experiment |-> <<>>],
                       ordering |-> OrderingBy("bogus", ASCENDING)]]}

\* The metrics of a PUT body: lists of ExptMetricInputData (none, one, two,
\* one of an unknown region, one of an unknown metric type), a list that
\* holds a dict, a dict.
ExptMetricLists ==
    {PyList(<<>>),
     PyList(<<ExptMetricInputData("temperature", "global", 0, "plevs", 5, 1)>>),
     PyList(<<ExptMetricInputData("temperature", "global", 0, "plevs", 5, 1),
              ExptMetricInputData("temperature", "tropics", 0, "plevs", 6, 1)>>),
     PyList(<<ExptMetricInputData("temperature", "arctic", 0, "plevs", 5, 1)>>),
     PyList(<<ExptMetricInputData("salinity", "global", 0, "plevs", 5, 1)>>),
     PyList(<<[type |-> "dict"]>>),
     [type |-> "dict", v |-> <<>>]}

ExptMetricPutRequests ==
    {[method |-> HTTP_PUT,
      body |-> [expt_name |-> name, expt_wallclock_start |-> DateStr(1),
                metrics |-> metrics,
                datestr_format |-> DEFAULT_DATETIME_FORMAT_STR]] :
        name \in {"exp1", "exp9"}, metrics \in ExptMetricLists}
    \cup {[method |-> HTTP_PUT],
          [method |-> HTTP_PUT,
           body |-> [expt_name |-> "exp1",
                     expt_wallclock_start |-> DateStr(1),
                     metrics |-> PyList(<<>>),
                     datestr_format |-> UNDERSCORE_FORMAT_STR]]}

MetricTypeBodies ==
    {[name |-> "temperature", measurement_type |-> "rmsd",
      measurement_units |-> "K", stat_type |-> "mean", description |-> JSON_EMPTY],
     [name |-> "salinity", measurement_type |-> "rmsd",
      measurement_units |-> "psu", stat_type |-> "mean", description |-> JSON_EMPTY],
     [measurement_type |-> "rmsd", measurement_units |-> "K",
      stat_type |-> "mean", description |-> JSON_EMPTY],
     [name |-> "temperature", measurement_type |-> "rmsd",
      measurement_units |-> "K", stat_type |-> "mean"]}

MetricTypePutRequests ==
    {[method |-> HTTP_PUT, body |-> body] : body \in MetricTypeBodies}

MetricTypeGetRequests ==
    {[method |-> HTTP_GET], [method |-> HTTP_GET, params |-> <<>>],
     [method |-> HTTP_GET, params |-> [filters |-> <<>>]],
     [method |-> HTTP_GET, params |-> [filters |-> [name |-> [exact |-> "salinity"]]]],
     [method |-> HTTP_GET, params |-> [filters |-> <<>>, record_limit |-> 1]],
     [method |-> HTTP_GET,
      params |-> [filters |-> <<>>, ordering |-> OrderingBy("bogus", ASCENDING)]]}

\* Experiment GETs with a record_limit.
ExperimentGetLimitRequests ==
    {[method |-> HTTP_GET, params |-> [filters |-> <<>>, record_limit |-> 1]]}

\* A body that differs from ExperimentBody(name, 1, 2, HERA, 1) in every
\* field but the name and the wallclock_start.
OtherExperimentBody(name) ==
    [name |-> name, cycle_start |-> DateStr(2), cycle_stop |-> DateStr(3),
     owner_id |-> "other", group_id |-> "group", experiment_type |-> "cycled",
     platform |-> ORION, wallclock_start |-> DateStr(1),
     wallclock_end |-> DateStr(3), description |-> JSON_NOTE,
     datestr_format |-> DEFAULT_DATETIME_FORMAT_STR]

\* Experiment PUTs: of the stored experiment, and of another.
ExperimentRePutRequests ==
    {[method |-> HTTP_PUT, body |-> body] :
        body \in {ExperimentBody(name, 1, 2, HERA, 1) : name \in ExperimentNames}
                  \cup {OtherExperimentBody(name) : name \in ExperimentNames}}

NextExptMetric ==
    \/ \E request_dict \in ExptMetricGetRequests, dbOk \in BOOLEAN :
           ExptMetricRequestSubmit(request_dict, dbOk)
    \/ \E request_dict \in ExptMetricPutRequests, dbOk \in BOOLEAN :
           ExptMetricRequestSubmit(request_dict, dbOk)
    \/ \E request_dict \in MetricTypePutRequests, fault \in Faults :
           MetricTypeRequestSubmit(request_dict, fault)
    \/ \E request_dict \in MetricTypeGetRequests :
           MetricTypeRequestSubmit(request_dict, "none")
    \/ \E request_dict \in ExperimentGetLimitRequests : ExperimentGet(request_dict)
    \/ \E request_dict \in ExperimentRePutRequests, fault \in Faults :
           ExperimentPut(request_dict, fault)
    \/ \E request_dict \in {[method |-> HTTP_PUT,
                             body |-> [regions |->
                                 TypedList(<<GLOBAL, TROPICS>>, PyDict)]]},
          dbOk \in BOOLEAN :
           RegionPut(request_dict, dbOk)

SpecExptMetric == InitExptMetric /\ [][NextExptMetric]_vars

(***************************************************************************)
(* Experiment PUTs of callers that run at the same time.  Every caller has *)
(* its own session; put_experiment sends the statement (session.execute)   *)
(* and commits (session.commit) in separate steps, and the database runs   *)
(* the statements of the sessions in any order.                            *)
(***************************************************************************)
\* The experiment of the request a session sent.
SessionData(p) ==
    Val(ExperimentRequestInit(sessions[p].request).value.experiment_data)

\* A variant of ConflictingWrites: the table without unique_experiment.
NoConflictingWrites(p, data) == {}

\* unique_experiment: the sessions other than p that wrote a row of the
\* name and wallclock_start of data and have not committed.  The statement
\* of p waits for them.
ConflictingWrites(p, data) ==
    {q \in Callers \ {p} :
        /\ sessions[q].pc = "executed"
        /\ \E row \in sessions[q].written : ExperimentKey(row) = ExperimentKey(data)}

\* The rows a statement writes, given the table before and after it.  The
\* id of a new row is the next value of the sequence of the column, which
\* the sessions share.
WrittenRows(table, table_after, seq) ==
    {IF \E old \in table : ExperimentKey(old) = ExperimentKey(row)
     THEN row ELSE [row EXCEPT !.id = seq] : row \in table_after \ table}

\* put_experiment up to session.execute, lines 517-572: the caller builds
\* the request and the statement (time_now is read here) and sends it.
SessionBegin(p, request_dict) ==
    /\ clock <= MaxRequests
    /\ sessions[p].pc = "idle"
    /\ ~ExperimentRequestInit(request_dict).raised
    /\ sessions' = [sessions EXCEPT ![p] =
           [pc |-> "waiting", request |-> request_dict, time_now |-> clock,
            waited |-> FALSE, replaced |-> {}, written |-> {}, committed |-> FALSE]]
    /\ clock' = clock + 1
    /\ UNCHANGED <<regions, experiments, last, regionPuts, exptLog, metric_types,
                   expt_metrics, harvest, arg, ret>>

\* The statement of p cannot run yet: another session holds a row of its
\* key.
SessionWait(p) ==
    /\ sessions[p].pc = "waiting"
    /\ ~sessions[p].waited
    /\ ConflictingWrites(p, SessionData(p)) # {}
    /\ sessions' = [sessions EXCEPT ![p].waited = TRUE]
    /\ UNCHANGED <<regions, experiments, clock, last, regionPuts, exptLog,
                   metric_types, expt_metrics, harvest, arg, ret>>

\* session.execute returns, lines 572-574: the database ran the statement
\* on the committed rows; the rows it wrote are held by the session.
SessionExecute(p) ==
    /\ sessions[p].pc = "waiting"
    /\ ConflictingWrites(p, SessionData(p)) = {}
    /\ sessions' = [sessions EXCEPT
           ![p].pc = "executed",
           ![p].replaced =
               {old \in experiments : ExperimentKey(old) = ExperimentKey(SessionData(p))},
           ![p].written =
               WrittenRows(experiments,
                   UpsertExperiment(experiments, SessionData(p), sessions[p].time_now),
                   sessions[p].time_now)]
    /\ UNCHANGED <<regions, experiments, clock, last, regionPuts, exptLog,
                   metric_types, expt_metrics, harvest, arg, ret>>

\* session.commit, lines 582-608, and the response; fault is "none" or
\* "commit".
SessionCommit(p, fault) ==
    /\ sessions[p].pc = "executed"
    /\ sessions' = [sessions EXCEPT ![p].pc = "idle",
                                    ![p].committed = (fault = "none")]
    /\ ExperimentSubmitCommit(sessions[p].request, fault, SessionData(p),
           (experiments \ sessions[p].replaced) \cup sessions[p].written,
           CHOOSE row \in sessions[p].written : TRUE)
    /\ UNCHANGED <<regions, clock, regionPuts, metric_types, expt_metrics, harvest, arg, ret>>

NextConcurrent ==
    \/ \E p \in Callers, request_dict \in ExperimentRePutRequests :
           SessionBegin(p, request_dict)
    \/ \E p \in Callers : SessionWait(p)
    \/ \E p \in Callers : SessionExecute(p)
    \/ \E p \in Callers, fault \in {"none", "commit"} : SessionCommit(p, fault)

(***************************************************************************)
(* Region PUTs of callers that run at the same time.  Every caller has its *)
(* own session; submit reads the stored regions (get_regions), sends the   *)
(* rows that were not stored (session.bulk_save_objects) and commits       *)
(* (session.commit) in separate steps.  The table has the constraint       *)
(* unique_region on name and bounds.                                       *)
(***************************************************************************)
\* The regions of the request a session sent.
RegionSessionData(p) == Val(RegionRequestInit(sessions[p].request).value.regions)

\* unique_region: the sessions other than p that wrote a row of the name
\* and bounds of a row of p and have not committed.  The insert of p waits
\* for them.
RegionConflictingWrites(p) ==
    {q \in Callers \ {p} :
        /\ sessions[q].pc = "inserted"
        /\ \E r \in sessions[p].written, w \in sessions[q].written :
               r.hash_val = w.hash_val}

\* The response of the PUT branch, lines 309-329.
RegionPutResponse(request_dict, table, hash_vals, inserted, error_msg) ==
    DbActionResponse("region", request_dict, error_msg = PyNone,
        [inserted_records |-> inserted,
         matched_records |-> get_region_set(table, hash_vals),
         stored_before |-> table],
        error_msg)

\* submit of a PUT up to the records to insert, lines 269-293: the caller
\* builds the request, reads the stored rows of its regions and makes a
\* record of every region that is not among them.
RegionSessionCheck(p, request_dict) ==
    /\ clock <= MaxRequests
    /\ sessions[p].pc = "idle"
    /\ ~RegionRequestInit(request_dict).raised
    /\ sessions' = [sessions EXCEPT ![p] =
           [pc |-> "checked", request |-> request_dict, time_now |-> clock,
            waited |-> FALSE, replaced |-> {},
            written |-> RegionsToInsert(
                Val(RegionRequestInit(request_dict).value.regions),
                get_region_set(regions, get_regions_hash_vals(
                    Val(RegionRequestInit(request_dict).value.regions)))),
            committed |-> FALSE]]
    /\ clock' = clock + 1
    /\ UNCHANGED <<regions, experiments, last, regionPuts, exptLog, metric_types,
                   expt_metrics, harvest, arg, ret>>

\* session.bulk_save_objects(records), lines 296-300.  Without records the
\* response is built at once.  A record of the name and bounds of a
\* committed row breaks unique_region: the insert raises, the except branch
\* of lines 305-309 builds the response, and no row of the batch is stored.
RegionSessionInsert(p) ==
    /\ sessions[p].pc = "checked"
    /\ RegionConflictingWrites(p) = {}
    /\ IF sessions[p].written = {}
       THEN /\ sessions' = [sessions EXCEPT ![p].pc = "done", ![p].committed = TRUE]
            /\ last' = RegionPutResponse(sessions[p].request, regions,
                           get_regions_hash_vals(RegionSessionData(p)), {}, PyNone)
       ELSE IF \E r \in sessions[p].written, row \in regions :
                   unique_region(row) = r.hash_val
       THEN /\ sessions' = [sessions EXCEPT ![p].pc = "done"]
            /\ last' = RegionPutResponse(sessions[p].request, regions,
                           get_regions_hash_vals(RegionSessionData(p)), {},
                           Some("Failed to insert records"))
       ELSE /\ sessions' = [sessions EXCEPT ![p].pc = "inserted"]
            /\ UNCHANGED last
    /\ UNCHANGED <<regions, experiments, clock, regionPuts, exptLog, metric_types,
                   expt_metrics, harvest, arg, ret>>

\* session.commit() and the response, lines 301-329.
RegionSessionCommit(p) ==
    /\ sessions[p].pc = "inserted"
    /\ sessions' = [sessions EXCEPT ![p].pc = "done", ![p].committed = TRUE]
    /\ \E rows \in NewRegionRows(regions, sessions[p].written, sessions[p].time_now) :
           /\ regions' = regions \cup rows
           /\ last' = RegionPutResponse(sessions[p].request, regions',
                          get_regions_hash_vals(RegionSessionData(p)),
                          get_region_set(regions',
                              {r.hash_val : r \in sessions[p].written}),
                          PyNone)
    /\ UNCHANGED <<experiments, clock, regionPuts, exptLog, metric_types,
                   expt_metrics, harvest, arg, ret>>

\* The PUTs of the callers: of one region, of another, of both.
RegionConcurrentRequests ==
    {[method |-> HTTP_PUT, body |-> [regions |-> TypedList(rs, PyDict)]] :
        rs \in {<<GLOBAL>>, <<TROPICS>>, <<GLOBAL, TROPICS>>}}

NextRegionConcurrent ==
    \/ \E p \in Callers, request_dict \in RegionConcurrentRequests :
           RegionSessionCheck(p, request_dict)
    \/ \E p \in Callers : RegionSessionInsert(p)
    \/ \E p \in Callers : RegionSessionCommit(p)

(***************************************************************************)
(* harvest_innov_stats.py: HarvestInnovStatsRequest.  A datetime of the    *)
(* harvest is a number of hours.  DateRange is the class of time_utils.py: *)
(* a cursor that starts at the start of the range, is moved by increment   *)
(* and is at the end once it has reached the end of the range;             *)
(* cycle_seconds is the offset of the cursor in its day, in seconds.       *)
(***************************************************************************)
DateRangeInit(start, end) == [start |-> start, end |-> end, current |-> start]

cycle_seconds(date_range) == (date_range.current % 24) * 3600

increment(date_range, days, hours) ==
    [date_range EXCEPT !.current = @ + 24 * days + hours]

at_end(date_range) == date_range.current >= date_range.end

\* n_hours and n_days of submit.
N_HOURS == 6

N_DAYS == 0

\* A variant of NextCursor: the cursor stays where it is.
NextCursorStalled(date_range) == increment(date_range, N_DAYS, 0)

\* self.date_range.increment(days=n_days, hours=n_hours)
NextCursor(date_range) == increment(date_range, N_DAYS, N_HOURS)

\* FileData(file_dict): of the fields, cycles decides what submit does.
FileData(file_dict) == [cycles |-> file_dict.cycles]

\* HarvestInnovStatsRequest.__post_init__: the range is parsed with
\* datetime_str; a 'files' that is not a list is reported in a message that
\* reads the undefined name files.
HarvestInnovStatsRequestInit(config_dict) ==
    Let(config_dict.date_range, LAMBDA date_range_dict :
    Let(strptime(date_range_dict.start, date_range_dict.datetime_str), LAMBDA start :
    Let(strptime(date_range_dict.end, date_range_dict.datetime_str), LAMBDA end :
        IF start.raised \/ end.raised THEN Raise("ValueError")
        ELSE IF Get(config_dict, "files") = PyNone THEN Raise("NameError")
        ELSE Ok([date_range |-> DateRangeInit(start.value, end.value),
                 hv_files |-> [i \in DOMAIN config_dict.files |->
                                  FileData(config_dict.files[i])],
                 datetime_str |-> date_range_dict.datetime_str,
                 expt_name |-> config_dict.expt_name,
                 expt_wallclk_strt |-> config_dict.expt_wallclk_strt]))))

\* The harvest run after HarvestInnovStatsRequest(config_dict): at the top
\* of the while loop of submit, or ended by the exception of __post_init__.
HarvestStart(request) ==
    IF request.raised
    THEN [NoHarvest EXCEPT !.pc = "raised"]
    ELSE [pc |-> "files", date_range |-> request.value.date_range,
          hv_files |-> request.value.hv_files, file |-> 1, loop_count |-> 0,
          log |-> <<>>]

\* What submit did for the file it is at: whether the cycle is one of the
\* file's, whether harvest was called, what the PUT gave.
HarvestLog(h, matched, harvested, returned) ==
    [loop_count |-> h.loop_count, file |-> h.file,
     current |-> h.date_range.current, matched |-> matched,
     harvested |-> harvested, returned |-> returned]

\* The request of lines 209-218 for the rows harvest returned.
HarvestRequestDict(harvested_data) ==
    [name |-> "expt_metrics", method |-> HTTP_PUT,
     body |-> [expt_name |-> "exp1",
               expt_wallclock_start |-> DateStr(1),
               metrics |-> PyList(harvested_data),
               datestr_format |-> DEFAULT_DATETIME_FORMAT_STR]]

\* What harvest(harvest_config) of score_hv returns, as the list of
\* ExptMetricInputData built from it: no row, a row.
HarvestedData ==
    {<<>>, <<ExptMetricInputData("temperature", "global", 0, "plevs", 5, 1)>>}

\* A variant of HarvestMatches: every file is harvested in every cycle.
HarvestMatchesAlways(date_range, file_dict) == TRUE

\* Lines 167-169: whether the cycle of the cursor is one of the file's.
HarvestMatches(date_range, file_dict) ==
    cycle_seconds(date_range) \in file_dict.cycles

\* The body of the for loop of submit, lines 165-222, for one file: a file
\* whose cycles do not hold the cycle of the cursor is passed over; for
\* another, harvest is called and its rows are put.  An exception of
\* ExptMetricRequest(request_dict) leaves submit.
HarvestFile ==
    /\ harvest.pc = "files"
    /\ harvest.file <= Len(harvest.hv_files)
    /\ IF ~HarvestMatches(harvest.date_range, harvest.hv_files[harvest.file])
       THEN /\ harvest' = [harvest EXCEPT
                   !.file = @ + 1,
                   !.log = Append(@, HarvestLog(harvest, FALSE, FALSE, ""))]
            /\ UNCHANGED <<last, expt_metrics, arg>>
       ELSE \E harvested_data \in HarvestedData, dbOk \in BOOLEAN :
            /\ \E er \in {ExptMetricRequestInit(HarvestRequestDict(harvested_data))} :
                   ExptMetricSubmit(er, HarvestRequestDict(harvested_data), dbOk)
            /\ arg' = [dbOk |-> dbOk]
            /\ harvest' = [harvest EXCEPT
                   !.pc = IF last'.returned = "exception" THEN "raised" ELSE @,
                   !.file = @ + 1,
                   !.log = Append(@, HarvestLog(harvest, TRUE, TRUE,
                                                last'.returned))]
    /\ UNCHANGED <<regions, experiments, clock, regionPuts, exptLog,
                 metric_types, sessions, ret>>

\* The end of an iteration of the while loop, lines 224-227: the cursor is
\* moved, and the loop ends when it is at the end.  The ranges of
\* HarvestConfigs take MaxCycles iterations at most.
HarvestAdvance ==
    /\ harvest.pc = "files"
    /\ harvest.file > Len(harvest.hv_files)
    /\ harvest.loop_count < MaxCycles
    /\ harvest' = [harvest EXCEPT
           !.date_range = NextCursor(@),
           !.file = 1,
           !.loop_count = @ + 1,
           !.pc = IF at_end(NextCursor(harvest.date_range))
                  THEN "done" ELSE "files"]
    /\ UNCHANGED <<regions, experiments, clock, last, regionPuts, exptLog,
                 metric_types, expt_metrics, sessions, arg, ret>>

\* The cycles of the files of a harvest: every six hours, at six only, none.
CYCLES == {0, 21600, 43200, 64800}

HarvestFiles ==
    {<<>>, <<[cycles |-> CYCLES]>>, <<[cycles |-> {21600}]>>,
     <<[cycles |-> CYCLES], [cycles |-> {21600}]>>, <<[cycles |-> {}]>>}

\* A date string of the harvest configuration.
HarvestDateStr(t) == [layout |-> DEFAULT_DATETIME_FORMAT_STR, t |-> t]

\* Harvest configurations: ranges that start at 0, 6 or 18 o'clock and
\* are up to MaxCycles steps long, some of them not a whole number of
\* steps; one whose dates are not written as datetime_str says.
HarvestConfigs ==
    {[date_range |-> [datetime_str |-> DEFAULT_DATETIME_FORMAT_STR,
                      start |-> HarvestDateStr(start),
                      end |-> HarvestDateStr(start + 3 * length)],
      files |-> files, expt_name |-> "exp1", expt_wallclk_strt |-> DateStr(1)] :
        start \in {0, 6, 18}, length \in 0..(2 * MaxCycles), files \in HarvestFiles}
    \cup
    {[date_range |-> [datetime_str |-> UNDERSCORE_FORMAT_STR,
                      start |-> HarvestDateStr(0), end |-> HarvestDateStr(6)],
      files |-> <<>>, expt_name |-> "exp1", expt_wallclk_strt |-> DateStr(1)]}

InitHarvest ==
    /\ regions = StoredRegions
    /\ experiments = StoredExperiments
    /\ metric_types = StoredMetricTypes
    /\ expt_metrics = {}
    /\ sessions = [p \in Callers |-> IdleSession]
    /\ clock = 2
    /\ last = NoRequest
    /\ regionPuts = [h \in AllHashes |-> 0]
    /\ exptLog = <<>>
    /\ arg = <<>>
    /\ ret = [called |-> FALSE]
    /\ \E config_dict \in HarvestConfigs :
           harvest = HarvestStart(HarvestInnovStatsRequestInit(config_dict))

NextHarvest == HarvestFile \/ HarvestAdvance

SpecHarvest == InitHarvest /\ [][NextHarvest]_vars

\* submit runs on once called: a step that can be taken is taken.
SpecHarvestFair == SpecHarvest /\ WF_vars(NextHarvest)

(***************************************************************************)
(* Every handler against one database: GET and PUT requests on the four    *)
(* tables, and a harvest run that goes on between them.                    *)
(***************************************************************************)
\* The configurations of the harvest run: one cycle, a file that is
\* harvested in it or one that is passed over.
HarvestRunConfigs ==
    {config_dict \in HarvestConfigs :
        /\ config_dict.date_range.datetime_str = DEFAULT_DATETIME_FORMAT_STR
        /\ config_dict.date_range.start.t = 0
        /\ config_dict.date_range.end.t = 0
        /\ config_dict.files \in {<<[cycles |-> CYCLES]>>, <<[cycles |-> {21600}]>>}}

\* A caller builds HarvestInnovStatsRequest(config_dict) and calls submit.
HarvestBegin(config_dict) ==
    /\ harvest.pc = "idle"
    /\ harvest' = HarvestStart(HarvestInnovStatsRequestInit(config_dict))
    /\ UNCHANGED <<regions, regionPuts, experiments, exptLog, metric_types,
                   expt_metrics, sessions, clock, last, arg, ret>>

NextAll ==
    \/ NextExptMetric
    \/ \E request_dict \in RegionGetByNameRequests : RegionGet(request_dict)
    \/ \E request_dict \in RegionGetAllRequests : RegionGet(request_dict)
    \/ \E config_dict \in HarvestRunConfigs : HarvestBegin(config_dict)
    \/ HarvestFile
    \/ HarvestAdvance

SpecAll == InitExptMetric /\ [][NextAll]_vars

Init ==
    /\ regions = {}
    /\ experiments = {}
    /\ clock = 1
    /\ last = NoRequest
    /\ regionPuts = [h \in AllHashes |-> 0]
    /\ exptLog = <<>>
    /\ metric_types = {}
    /\ expt_metrics = {}
    /\ sessions = [p \in Callers |-> IdleSession]
    /\ harvest = NoHarvest
    /\ arg = <<>>
    /\ ret = [called |-> FALSE]

Next ==
    \/ \E request_dict \in RegionPutRequests, dbOk \in BOOLEAN :
           RegionPut(request_dict, dbOk)
    \/ \E request_dict \in RegionGetByNameRequests : RegionGet(request_dict)
    \/ \E request_dict \in RegionGetByDataRequests : RegionGet(request_dict)
    \/ \E request_dict \in RegionGetAllRequests : RegionGet(request_dict)

Spec == Init /\ [][Next]_vars

NextExperiment ==
    \/ \E request_dict \in ExperimentPutRequests, fault \in Faults :
           ExperimentPut(request_dict, fault)
    \/ \E request_dict \in ExperimentPutWithParamsRequests :
           ExperimentPut(request_dict, "none")
    \/ \E request_dict \in ExperimentGetRequests : ExperimentGet(request_dict)

SpecExperiment == Init /\ [][NextExperiment]_vars

NextDispatch ==
    \/ \E request_info \in WithRequestName(RegionPutRequests), dbOk \in BOOLEAN :
           HandleRequest(request_info, dbOk, "none")
    \/ \E request_info \in WithRequestName(ExperimentPutRequests),
           fault \in Faults :
           HandleRequest(request_info, TRUE, fault)

SpecDispatch == Init /\ [][NextDispatch]_vars

SpecConcurrent == Init /\ [][NextConcurrent]_vars

SpecRegionConcurrent == Init /\ [][NextRegionConcurrent]_vars

(***************************************************************************)
(* The validation functions of the request classes, applied on their own,  *)
(* and the constructors of the four request classes applied to requests    *)
(* of every method.                                                        *)
(***************************************************************************)
\* The list [], as a method: it equals no str.
EMPTY_LIST == "[]"

\* request_dict.get('method'): None, the two methods, other strings, a list.
Methods ==
    {PyNone, Some(HTTP_GET), Some(HTTP_PUT), Some("blah"), Some("get"),
     Some(EMPTY_LIST)}

\* request_dict with 'method' set to method, or without the key.
WithMethod(request_dict, method) ==
    IF method = PyNone THEN DelItem(request_dict, "method")
    ELSE SetItem(request_dict, "method", Val(method))

\* Lists of at most MaxList members drawn from S.
TypedLists(S) == {PyList(l) : l \in UNION {[1..n -> S] : n \in 0..MaxList}}

\* d.get('regions') that is not a list: None, a str, an int, a dict.
NonLists == {PyNone, Some(PyStr("dude")), Some(PyInt("1")), Some(PyDict(GLOBAL))}

\* Lists of str, and lists with a member that is not a str.
StringLists ==
    {Some(l) : l \in TypedLists({PyStr("foo"), PyStr("bar"), PyInt("1")})}

\* Lists of region dicts (two of one name, one with inverted latitudes),
\* and lists with a member that is not a dict.
RegionLists ==
    {Some(l) : l \in TypedLists({PyDict(GLOBAL), PyDict(GLOBAL_BAND),
                                 PyDict(TROPICS), PyDict(INVERTED),
                                 PyStr("foo")})}

\* The arguments of validate_body for a body with the given 'regions'.
BodyArgs(methods, filter_types, inputs) ==
    [fn : {"validate_body"}, method : methods, filter_type : filter_types,
     body : {Some([regions |-> Val(x)]) : x \in inputs \ {PyNone}}]

FILTER__STRINGS == {FILTER__BY_REGION_NAME, FILTER__NONE}

InitValidate ==
    /\ HandlersIdle
    /\ ret = [done |-> FALSE]
    /\ \/ arg \in [fn : {"validate_method"}, method : Methods]
       \/ arg \in [fn : {"validate_list_of_strings"}, values : NonLists]
       \/ arg \in [fn : {"validate_list_of_strings"}, values : StringLists]
       \/ arg \in [fn : {"validate_list_of_regions"}, values : NonLists]
       \/ arg \in [fn : {"validate_list_of_regions"}, values : RegionLists]
       \/ arg \in [fn : {"validate_body"}, method : VALID_METHODS,
                   filter_type : VALID_FILTER_TYPES, body : {PyNone}]
       \/ arg \in BodyArgs({HTTP_GET}, FILTER__STRINGS, NonLists)
       \/ arg \in BodyArgs({HTTP_GET}, FILTER__STRINGS, StringLists)
       \/ arg \in BodyArgs(VALID_METHODS, {FILTER__BY_REGION_DATA}, NonLists)
       \/ arg \in BodyArgs(VALID_METHODS, {FILTER__BY_REGION_DATA}, RegionLists)
       \/ arg \in {[fn |-> "RegionRequest",
                    request_dict |-> WithMethod(request_dict, method)] :
                      request_dict \in RegionPutRequests \cup RegionGetAllRequests,
                      method \in Methods}
       \/ arg \in {[fn |-> "ExperimentRequest",
                    request_dict |-> WithMethod(request_dict, method)] :
                      request_dict \in ExperimentRePutRequests \cup {[method |-> HTTP_GET]},
                      method \in Methods}
       \/ arg \in {[fn |-> "MetricTypeRequest",
                    request_dict |-> WithMethod(request_dict, method)] :
                      request_dict \in MetricTypePutRequests \cup MetricTypeGetRequests,
                      method \in Methods}
       \/ arg \in {[fn |-> "ExptMetricRequest",
                    request_dict |-> WithMethod(request_dict, method)] :
                      request_dict \in ExptMetricPutRequests \cup {[method |-> HTTP_GET]},
                      method \in Methods}

\* The function arg.fn applied to its arguments.
Validated(result) ==
    /\ ~ret.done
    /\ ret' = [done |-> TRUE, result |-> result]
    /\ UNCHANGED <<regions, experiments, clock, last, regionPuts, exptLog,
                 metric_types, expt_metrics, sessions, harvest, arg>>

ValidateMethod ==
    /\ arg.fn = "validate_method"
    /\ Validated(validate_method(arg.method))

ValidateListOfStrings ==
    /\ arg.fn = "validate_list_of_strings"
    /\ Validated(validate_list_of_strings(arg.values))

ValidateListOfRegions ==
    /\ arg.fn = "validate_list_of_regions"
    /\ Validated(validate_list_of_regions(arg.values))

ValidateBody ==
    /\ arg.fn = "validate_body"
    /\ Validated(validate_body(arg.method, arg.body, arg.filter_type))

\* RegionRequest(request_dict) and the like: the request object, or the
\* exception of __post_init__.
ConstructRequest ==
    \/ /\ arg.fn = "RegionRequest"
       /\ Validated(RegionRequestInit(arg.request_dict))
    \/ /\ arg.fn = "ExperimentRequest"
       /\ Validated(ExperimentRequestInit(arg.request_dict))
    \/ /\ arg.fn = "MetricTypeRequest"
       /\ Validated(MetricTypeRequestInit(arg.request_dict))
    \/ /\ arg.fn = "ExptMetricRequest"
       /\ Validated(ExptMetricRequestInit(arg.request_dict))

NextValidate ==
    \/ ValidateMethod
    \/ ValidateListOfStrings
    \/ ValidateListOfRegions
    \/ ValidateBody
    \/ ConstructRequest

SpecValidate == InitValidate /\ [][NextValidate]_vars

(***************************************************************************)
(* Properties                                                              *)
(***************************************************************************)
\* The hash values of the regions a Region PUT request holds.
RequestHashes(request_dict) ==
    get_regions_hash_vals(Val(RegionRequestInit(request_dict).value.regions))

\* The last request was a Region PUT that came back with success.
RegionPutSucceeded ==
    /\ last.op = "region"
    /\ last.request.method = HTTP_PUT
    /\ ~last.raised
    /\ last.success

\* C1: Region PUT is idempotent.  For every valid region, once one or more
\* PUT requests that contain it have gone through, the regions table holds
\* exactly one row with its name and derived bounds; and a PUT that is the
\* second or a later one to contain it inserts nothing for it.
C1_RegionPutIdempotent ==
    \A h \in AllHashes :
        /\ regionPuts[h] >= 1 =>
               Cardinality({row \in regions : unique_region(row) = h}) = 1
        /\ (RegionPutSucceeded /\ regionPuts[h] >= 2
                /\ h \in RequestHashes(last.request)) =>
               /\ \A row \in last.details.inserted_records : unique_region(row) # h
               /\ \E row \in last.details.stored_before : unique_region(row) = h

\* Two PUTs that hold the region global have gone through, the second one
\* the last request, and the table holds rows.
C1_Witness ==
    /\ RegionPutSucceeded
    /\ \E h \in RequestHashes(last.request) :
           /\ regionPuts[h] >= 2
           /\ \E row \in regions : unique_region(row) = h /\ row.name = "global"

\* The bounds string of the claim: 'POLYGON(' , the five corners, ')'.
ExpectedBounds(min_lat, max_lat) ==
    "POLYGON(" \o Corner(-180, max_lat) \o "," \o Corner(180, max_lat) \o ","
        \o Corner(180, min_lat) \o "," \o Corner(-180, min_lat) \o ","
        \o Corner(-180, max_lat) \o ")"

\* ExpectedBounds of each region a request can hold.
ExpectedBoundsOf == [r \in RegionDicts |-> ExpectedBounds(r.min_lat, r.max_lat)]

\* C5: the bounds string stored by Region PUT, and returned by a following
\* GET by name, is 'POLYGON(' followed by the five corner points and a
\* closing ')'.
C5_BoundsString ==
    /\ \A row \in regions :
           \E r \in RegionDicts : row.name = r.name /\ row.bounds = ExpectedBoundsOf[r]
    /\ (last.op = "region" /\ last.request.method = HTTP_GET /\ ~last.raised) =>
           \A row \in last.details.matched_records :
               \E r \in RegionDicts :
                   row.name = r.name /\ row.bounds = ExpectedBoundsOf[r]

\* C2: of the Experiment PUTs that went through with one (name,
\* wallclock_start), starting from an empty store, the first reports
\* action=INSERT and every later one action=UPDATE; the response of the
\* last PUT carries the action logged for it, and the store holds one row
\* for the pair.
C2_InsertThenUpdate ==
    /\ \A i \in DOMAIN exptLog :
           exptLog[i].action =
               IF \E j \in 1..(i - 1) : exptLog[j].key = exptLog[i].key
               THEN UPDATE ELSE INSERT
    /\ \A i \in DOMAIN exptLog :
           Cardinality({row \in experiments : ExperimentKey(row) = exptLog[i].key}) = 1
    /\ (last.op = "experiment" /\ last.request.method = HTTP_PUT
            /\ ~last.raised /\ last.success) =>
           /\ exptLog # <<>>
           /\ last.details.action = exptLog[Len(exptLog)].action
           /\ exptLog[Len(exptLog)].key = ExperimentKey(last.details.data)

\* Two PUTs with the same (name, wallclock_start) went through, the second
\* one the last request, answered with UPDATE.
C2_Witness ==
    /\ last.op = "experiment"
    /\ last.request.method = HTTP_PUT
    /\ ~last.raised
    /\ last.success
    /\ last.details.action = UPDATE
    /\ Len(exptLog) >= 2
    /\ exptLog[1].key = exptLog[Len(exptLog)].key
    /\ exptLog[1].action = INSERT

\* The body of an Experiment PUT has cycle_start later than cycle_stop.
InvertedCycle(body) ==
    /\ {"cycle_start", "cycle_stop", "datestr_format"} \subseteq DOMAIN body
    /\ body.cycle_start.layout = body.datestr_format
    /\ body.cycle_stop.layout = body.datestr_format
    /\ body.cycle_start.t > body.cycle_stop.t

\* The body of an Experiment PUT has a platform outside the allow-list.
BadPlatform(body) ==
    "platform" \in DOMAIN body => body.platform \notin VALID_PLATFORMS

\* The errors a validation raises.
ValidationErrors == {"ValueError", "TypeError"}

\* C4: an Experiment PUT whose body has cycle_start later than cycle_stop,
\* or a platform outside the allow-list, fails with a validation error
\* while the request is constructed, and the experiments table is unchanged.
C4_InvalidPutFailsAtConstruction ==
    [][(/\ last'.op = "experiment"
        /\ last'.request.method = HTTP_PUT
        /\ InvertedCycle(last'.request.body) \/ BadPlatform(last'.request.body))
       => (/\ last'.raised
           /\ last'.phase = "construct"
           /\ last'.exc \in ValidationErrors
           /\ experiments' = experiments)]_vars

\* C3: the frame remove_metric_duplicates returns holds only rows of the
\* frame it was given, exactly one row for each distinct (name, elevation,
\* elevation_unit, time_valid, expt_id, metric_id, region_id), and that row
\* has the latest created_at of the rows that share the key.
C3_DedupKeepsLatest ==
    ret.done =>
        /\ \A i \in DOMAIN ret.uf : \E j \in DOMAIN arg : ret.uf[i] = arg[j]
        /\ \A j \in DOMAIN arg :
               /\ Cardinality({i \in DOMAIN ret.uf :
                      DuplicateKey(ret.uf[i]) = DuplicateKey(arg[j])}) = 1
               /\ \A i \in DOMAIN ret.uf :
                      DuplicateKey(ret.uf[i]) = DuplicateKey(arg[j]) =>
                          ret.uf[i].created_at >= arg[j].created_at

\* A frame with two rows of one key and different created_at, the earlier
\* created row after the later one, has been deduplicated.
C3_Witness ==
    /\ ret.done
    /\ Len(ret.uf) < Len(arg)
    /\ \E i, j \in DOMAIN arg :
           /\ i < j
           /\ DuplicateKey(arg[i]) = DuplicateKey(arg[j])
           /\ arg[i].created_at > arg[j].created_at

\* The bounds of the filter carry 'from' and 'to', no 'exact', and 'to' is
\* earlier than 'from'.
ToBeforeFrom(bounds) ==
    /\ DOMAIN bounds = {FROM_DATETIME, TO_DATETIME}
    /\ bounds[TO_DATETIME].t < bounds[FROM_DATETIME].t

\* C6: for every time column filter of the Experiment handler and of the
\* ExperimentMetric handler, a filter that carries 'from' and 'to' with to
\* earlier than from makes filter construction fail with a ValueError, and
\* no predicate for the column is produced.
C6_ToBeforeFromIsValueError ==
    (ret.done /\ ToBeforeFrom(arg.bounds)) =>
        /\ ret.result.raised
        /\ ret.result.exc = "ValueError"
        /\ ret.result.value = PyNone

\* The bounds of the filter carry only 'from', a date string in the format
\* the handlers parse.
FromOnly(bounds) ==
    /\ DOMAIN bounds = {FROM_DATETIME}
    /\ bounds[FROM_DATETIME].layout = DEFAULT_DATETIME_FORMAT_STR

\* C7: for every time column filter that carries only a 'from' bound T1,
\* filter construction succeeds and the predicate it produces is satisfied
\* by exactly the column values at or after T1, in the Experiment handler
\* and in the ExperimentMetric handler alike.
C7_FromOnlyIsAtOrAfter ==
    (ret.done /\ FromOnly(arg.bounds)) =>
        /\ ~ret.result.raised
        /\ arg.key \in DOMAIN ret.result.value
        /\ \A v \in 0..(MaxTime + 1) :
               Satisfies(ret.result.value[arg.key], v)
                   <=> v >= arg.bounds[FROM_DATETIME].t

\* An ordering item build_column_ordering accepts for entity cls.
ValidOrderingItem(cls, item) ==
    /\ item.isdict
    /\ item.name # PyNone
    /\ Val(item.name).type = "str"
    /\ Val(item.name).v \in Entities[cls]
    /\ item.order_by # PyNone
    /\ Val(item.order_by).type = "str"
    /\ Val(item.order_by).v \in VALID_ORDER_BY

\* Item i is the first item of the list that is not valid.
FirstInvalid(cls, items, i) ==
    /\ i \in DOMAIN items
    /\ ~ValidOrderingItem(cls, items[i])
    /\ \A j \in 1..(i - 1) : ValidOrderingItem(cls, items[j])

\* The item is a dict whose name is a str that is no column of cls.
UnknownColumn(cls, item) ==
    /\ item.isdict
    /\ item.name # PyNone
    /\ Val(item.name).type = "str"
    /\ Val(item.name).v \notin Entities[cls]

\* The item is a dict that names a column of cls and whose order_by is
\* missing or anything but asc and desc.
BadDirection(cls, item) ==
    /\ item.isdict
    /\ item.name # PyNone
    /\ Val(item.name).type = "str"
    /\ Val(item.name).v \in Entities[cls]
    /\ \/ item.order_by = PyNone
       \/ Val(item.order_by).type # "str"
       \/ Val(item.order_by).v \notin VALID_ORDER_BY

\* The result is an ordering list.
ReturnsList(result) == ~result.raised /\ result.value # PyNone

\* The ordering handed in is a list.
IsList(ordering) == ordering # PyNone /\ Val(ordering).islist

\* The exceptions Python files under LookupError.
LookupErrors == {"LookupError", "KeyError", "IndexError"}

Registered(request_info) ==
    /\ "request_name" \in DOMAIN request_info
    /\ request_info.request_name.type = "str"
    /\ request_info.request_name.v \in DOMAIN request_registry

\* The request name of a handle_request call is missing, or a str that is
\* no key of the registry.
NotRegistered(request_info) ==
    "request_name" \in DOMAIN request_info =>
        /\ request_info.request_name.type = "str"
        /\ request_info.request_name.v \notin DOMAIN request_registry

\* C9: handle_request, given a request dict whose request name is a key of
\* the registry, constructs the registered handler from that dict, calls
\* its submit() once and returns the response submit() produced.
C9_DispatchSubmitsOnce ==
    (ret.called /\ Registered(ret.request_info)) =>
        /\ ret.constructed = 1
        /\ last.raised => last.phase = "construct"
        /\ ~last.raised => ret.submitted = 1 /\ last.op # "handle_request"

\* C10: handle_request, given a request dict whose request name is not a
\* key of the registry or is missing, fails with a KeyError and constructs
\* no handler.
C10_UnknownNameIsKeyError ==
    (ret.called /\ NotRegistered(ret.request_info)) =>
        /\ last.raised
        /\ last.exc = "KeyError"
        /\ ret.constructed = 0

PutResolves(request_dict) ==
    /\ "body" \in DOMAIN request_dict
    /\ request_dict.body.datestr_format = request_dict.body.expt_wallclock_start.layout
    /\ \E e \in experiments :
           /\ e.name = request_dict.body.expt_name
           /\ e.wallclock_start = request_dict.body.expt_wallclock_start.t
    /\ request_dict.body.metrics.type = "list"
    /\ request_dict.body.metrics.v # <<>>
    /\ \A i \in DOMAIN request_dict.body.metrics.v :
           /\ request_dict.body.metrics.v[i].type = "ExptMetricInputData"
           /\ \E r \in regions : r.name = request_dict.body.metrics.v[i].region_name
           /\ \E t \in metric_types : t.name = request_dict.body.metrics.v[i].name

\* C12: every call of ExptMetricRequest.submit returns a DbActionResponse,
\* and a PUT whose experiment, regions and metric types are stored, on a
\* database that inserts and commits all its rows, returns one with success
\* True.
C12_SubmitReturnsResponse ==
    (last.op = "expt_metrics" /\ last.phase = "submit") =>
        /\ last.returned = "DbActionResponse"
        /\ (/\ last.request.method = HTTP_PUT
            /\ PutResolves(last.request)
            /\ arg.dbOk) => last.success

\* C13: when the database rejects or fails the statement of an Experiment
\* PUT or of a MetricType PUT, submit() returns a response with success
\* False and an errors string; it raises no exception.
C13_RejectedUpsertIsFailureResponse ==
    (/\ last.op \in {"experiment", "metric_types"}
     /\ last.request.method = HTTP_PUT
     /\ last.phase = "submit"
     /\ arg.fault # "none") =>
        /\ last.returned = "DbActionResponse"
        /\ ~last.success
        /\ last.errors # PyNone

\* No experiment of the name and wallclock_start of the body of a PUT is
\* stored, or a metric of its list names a region or a metric type that is
\* not stored.
PutUnresolved(request_dict) ==
    /\ "body" \in DOMAIN request_dict
    /\ \/ ~\E e \in experiments :
               /\ e.name = request_dict.body.expt_name
               /\ e.wallclock_start = request_dict.body.expt_wallclock_start.t
       \/ /\ request_dict.body.metrics.type = "list"
          /\ \E i \in DOMAIN request_dict.body.metrics.v :
                 /\ request_dict.body.metrics.v[i].type = "ExptMetricInputData"
                 /\ \/ ~\E r \in regions :
                            r.name = request_dict.body.metrics.v[i].region_name
                    \/ ~\E t \in metric_types :
                            t.name = request_dict.body.metrics.v[i].name

\* C14: an ExperimentMetric PUT whose experiment is not stored, or one of
\* whose metrics names a region or a metric type that is not stored, returns
\* a failure response and leaves the expt_metrics table as it was.
C14_UnresolvedPutFails ==
    [][(/\ last'.op = "expt_metrics"
        /\ last'.request.method = HTTP_PUT
        /\ last'.phase = "submit"
        /\ PutUnresolved(last'.request)) =>
           /\ last'.returned = "DbActionResponse"
           /\ ~last'.success
           /\ last'.errors # PyNone
           /\ expt_metrics' = expt_metrics]_vars

\* A PUT of a metric of a region that is not stored, for a stored
\* experiment with stored metrics, has failed.
C14_Witness ==
    /\ last.op = "expt_metrics"
    /\ last.request.method = HTTP_PUT
    /\ PutUnresolved(last.request)
    /\ \E e \in experiments : e.name = last.request.body.expt_name
    /\ expt_metrics # {}
    /\ ~last.success

\* C15: bulk inserts are all-or-nothing: when the insert of a Region PUT or
\* of an ExperimentMetric PUT fails, none of the rows of the request is
\* stored and the table is as it was before the request.
C15_FailedBulkInsertStoresNothing ==
    [][/\ (/\ last'.op = "region"
           /\ last'.phase = "submit"
           /\ last'.request.method = HTTP_PUT
           /\ ~last'.success) => regions' = regions
       /\ (/\ last'.op = "expt_metrics"
           /\ last'.phase = "submit"
           /\ last'.request.method = HTTP_PUT
           /\ ~arg'.dbOk) => expt_metrics' = expt_metrics]_vars

\* The insert of a Region PUT of two regions, neither of them stored, has
\* failed.
C15_Witness ==
    /\ last.op = "region"
    /\ last.request.method = HTTP_PUT
    /\ Len(last.request.body.regions.v) = 2
    /\ ~last.raised
    /\ ~last.success
    /\ last.errors # PyNone
    /\ last.details.stored_before = {}

\* A stored metric row matches a metric of the body of a PUT: the same
\* experiment, metric type, region, elevation, elevation_unit and
\* time_valid.
MetricMatches(row, item, body) ==
    /\ \E e \in experiments :
           /\ e.name = body.expt_name
           /\ e.wallclock_start = body.expt_wallclock_start.t
           /\ e.id = row.experiment_id
    /\ \E t \in metric_types : t.name = item.name /\ t.id = row.metric_type_id
    /\ \E r \in regions : r.name = item.region_name /\ r.id = row.region_id
    /\ row.elevation = item.elevation
    /\ row.elevation_unit = item.elevation_unit
    /\ row.time_valid = item.time_valid

\* C16: an ExperimentMetric PUT is insert-only with match detection: of the
\* metrics of a PUT whose references are stored, on a database that runs
\* the insert, one that matches a stored row is skipped (no row is stored
\* for it) while one that matches none is stored, and no stored row is
\* changed.
C16_MatchingRowsAreSkipped ==
    [][(/\ last'.op = "expt_metrics"
        /\ last'.request.method = HTTP_PUT
        /\ last'.phase = "submit"
        /\ PutResolves(last'.request)
        /\ \E i \in DOMAIN last'.request.body.metrics.v, row \in expt_metrics :
               MetricMatches(row, last'.request.body.metrics.v[i],
                             last'.request.body)
        /\ arg'.dbOk) =>
           /\ expt_metrics \subseteq expt_metrics'
           /\ \A i \in DOMAIN last'.request.body.metrics.v :
                  Cardinality({row \in expt_metrics' :
                      MetricMatches(row, last'.request.body.metrics.v[i],
                                    last'.request.body)})
                  = IF \E row \in expt_metrics :
                           MetricMatches(row, last'.request.body.metrics.v[i],
                                         last'.request.body)
                    THEN Cardinality({row \in expt_metrics :
                             MetricMatches(row, last'.request.body.metrics.v[i],
                                           last'.request.body)})
                    ELSE 1]_vars

\* C17: the response of an Experiment, MetricType or ExperimentMetric GET
\* whose params hold a positive record_limit N contains at most N records.
C17_RecordLimitCapsRecords ==
    (/\ last.op \in {"experiment", "metric_types", "expt_metrics"}
     /\ last.request.method = HTTP_GET
     /\ last.returned = "DbActionResponse"
     /\ last.success
     /\ "params" \in DOMAIN last.request
     /\ "record_limit" \in DOMAIN last.request.params
     /\ last.request.params.record_limit > 0) =>
        last.details.record_count <= last.request.params.record_limit

\* C18: under every interleaving of concurrent Experiment PUTs, each of
\* which sends its statement and commits in separate steps, the experiments
\* table never holds two rows of the same name and wallclock_start.
C18_UniqueExperimentUnderInterleaving ==
    \A r1, r2 \in experiments :
        (r1.name = r2.name /\ r1.wallclock_start = r2.wallclock_start) => r1 = r2

\* A session waited for the uncommitted insert of another session and then
\* updated the row that session committed.
C18_Witness ==
    \E p \in Callers :
        /\ sessions[p].pc = "idle"
        /\ sessions[p].waited
        /\ sessions[p].committed
        /\ \E row \in sessions[p].written :
               /\ row \in experiments
               /\ row.updated_at # PyNone
               /\ row.id # sessions[p].time_now

\* The columns of an experiments row a re-PUT leaves alone.
FrameColumns ==
    {"id", "name", "cycle_start", "cycle_stop", "owner_id", "group_id",
     "experiment_type", "platform", "wallclock_start", "description",
     "created_at"}

\* C19: a PUT of an experiment whose name and wallclock_start are stored
\* changes only wallclock_end and updated_at of the stored row: its id,
\* cycle_start, cycle_stop, owner_id, group_id, experiment_type, platform,
\* description and created_at keep their values, whatever the body of the
\* request holds, and no other row changes.
C19_RePutChangesOnlyEndAndUpdated ==
    [][(/\ last'.op = "experiment"
        /\ last'.request.method = HTTP_PUT
        /\ last'.returned = "DbActionResponse"
        /\ last'.success) =>
           \A old \in experiments :
               \E new \in experiments' :
                   /\ \A c \in FrameColumns : new[c] = old[c]
                   /\ ExperimentKey(old) # ExperimentKey(last'.details.data)
                          => new = old
                   /\ ExperimentKey(old) = ExperimentKey(last'.details.data)
                          => /\ Cardinality(experiments') = Cardinality(experiments)
                             /\ new = last'.details.data]_vars

\* An experiment was stored again from a body whose other fields differ
\* from the stored ones.
C19_Witness ==
    /\ last.op = "experiment"
    /\ last.request.method = HTTP_PUT
    /\ last.success
    /\ last.details.action = UPDATE
    /\ last.details.data \in experiments
    /\ last.request.body.owner_id # last.details.data.owner_id
    /\ last.request.body.platform # last.details.data.platform
    /\ "group_id" \in DOMAIN last.request.body
    /\ last.details.data.group_id = NULL

\* C20: a filter key that is absent is a no-op, not an error: a GET of the
\* Experiment, MetricType or ExperimentMetric handler whose filters mapping
\* names no column (and, for ExperimentMetric, none of the 'experiment',
\* 'metric_types' and 'regions' sub-mappings), with no ordering and the
\* database up, succeeds, and with no record_limit it returns the rows of
\* the table, none filtered out.
C20_AbsentFilterKeyIsNoOp ==
    (/\ last.op \in {"experiment", "metric_types", "expt_metrics"}
     /\ last.request.method = HTTP_GET
     /\ "params" \in DOMAIN last.request
     /\ "filters" \in DOMAIN last.request.params
     /\ last.request.params.filters = <<>>
     /\ "ordering" \notin DOMAIN last.request.params
     /\ last.op = "expt_metrics" => arg.dbOk) =>
        /\ last.returned = "DbActionResponse"
        /\ last.success
        /\ "record_limit" \notin DOMAIN last.request.params =>
               /\ last.op = "experiment" =>
                      last.details.record_count = Cardinality(experiments)
               /\ last.op = "metric_types" =>
                      last.details.record_count = Cardinality(metric_types)
               /\ last.op = "expt_metrics" =>
                      (last.details.record_count = 0) = (expt_metrics = {})

\* The request classes whose constructor is applied on its own.
RequestClasses ==
    {"RegionRequest", "ExperimentRequest", "MetricTypeRequest", "ExptMetricRequest"}

\* method is 'GET' or 'PUT'.
IsGetOrPut(method) == method # PyNone /\ Val(method) \in {"GET", "PUT"}

\* C21: validate_method returns 'GET' and 'PUT' unchanged and raises
\* ValueError for every other value (another string, None, a list), and a
\* request object of the four request classes is constructed only with one
\* of the two methods, the one of the request: with another method the
\* constructor raises ValueError.
C21_OnlyGetAndPutAreAccepted ==
    /\ (ret.done /\ arg.fn = "validate_method") =>
           IF IsGetOrPut(arg.method)
           THEN ret.result = Ok(Val(arg.method))
           ELSE ret.result = Raise("ValueError")
    /\ (ret.done /\ arg.fn \in RequestClasses) =>
           IF IsGetOrPut(Get(arg.request_dict, "method"))
           THEN ~ret.result.raised =>
                    ret.result.value.method = arg.request_dict.method
           ELSE ret.result = Raise("ValueError")

\* An ExptMetricRequest for the method 'blah' was refused with ValueError.
C21_Witness ==
    /\ ret.done
    /\ arg.fn = "ExptMetricRequest"
    /\ Get(arg.request_dict, "method") = Some("blah")
    /\ ret.result = Raise("ValueError")

\* Every element of the list l occurs in it exactly once.
EachOnce(l) == \A e \in DOMAIN l : l[e] = 1

\* values is a list whose members all have the given type.
IsListOf(values, type) ==
    /\ values # PyNone
    /\ Val(values).type = "list"
    /\ \A i \in DOMAIN Val(values).v : Val(values).v[i].type = type

\* The region dict r is one Region accepts.
IsValidRegionDict(r) ==
    r.min_lat <= r.max_lat /\ r.min_lat >= -90 /\ r.max_lat <= 90

\* The name and the latitudes of a RegionData, as a region dict.
AsRegionDict(x) == [name |-> x.name, min_lat |-> x.min_lat, max_lat |-> x.max_lat]

\* C22: region request validation collapses duplicates.  For a list input,
\* validate_list_of_strings and validate_list_of_regions return a list in
\* which every element occurs exactly once and whose elements are those of
\* the input; so are the region_names and the regions validate_body
\* returns; an input that is not a list, or a list with an invalid member,
\* raises TypeError.
C22_ValidationCollapsesDuplicates ==
    /\ (ret.done /\ arg.fn = "validate_list_of_strings") =>
           IF IsListOf(arg.values, "str")
           THEN /\ ~ret.result.raised
                /\ EachOnce(ret.result.value)
                /\ DOMAIN ret.result.value =
                       {Val(arg.values).v[i].v : i \in DOMAIN Val(arg.values).v}
           ELSE ret.result = Raise("TypeError")
    /\ (ret.done /\ arg.fn = "validate_list_of_regions") =>
           IF /\ IsListOf(arg.values, "dict")
              /\ \A i \in DOMAIN Val(arg.values).v :
                     IsValidRegionDict(Val(arg.values).v[i].d)
           THEN /\ ~ret.result.raised
                /\ EachOnce(ret.result.value)
                /\ {AsRegionDict(x) : x \in DOMAIN ret.result.value} =
                       {Val(arg.values).v[i].d : i \in DOMAIN Val(arg.values).v}
           ELSE ret.result = Raise("TypeError")
    /\ (ret.done /\ arg.fn = "validate_body" /\ ~ret.result.raised) =>
           /\ ret.result.value.region_names # PyNone =>
                  EachOnce(Val(ret.result.value.region_names))
           /\ ret.result.value.regions # PyNone =>
                  EachOnce(Val(ret.result.value.regions))

\* C24: the harvest loop terminates.  For every date range whose start is
\* not after its end, each iteration of submit moves the cursor on by 6
\* hours, the loop is left exactly when the moved cursor has reached the
\* end of the range, and a run that was started is eventually done.
C24_HarvestLoopTerminates ==
    /\ [][(harvest.pc = "files" /\ harvest'.loop_count # harvest.loop_count) =>
              /\ harvest'.date_range.current = harvest.date_range.current + 6
              /\ harvest'.loop_count = harvest.loop_count + 1
              /\ (harvest'.pc = "done") =
                     (harvest'.date_range.current >= harvest.date_range.end)]_vars
    /\ (harvest.pc = "files") ~>
           (harvest.pc = "done" /\
            harvest.date_range.current >= harvest.date_range.end)

\* A harvest of two iterations that put harvested rows is done.
C24_Witness ==
    /\ harvest.pc = "done"
    /\ harvest.loop_count = 2
    /\ harvest.date_range.start <= harvest.date_range.end
    /\ \E i \in DOMAIN harvest.log : harvest.log[i].harvested

\* C25: in every iteration of the harvest loop and for each file, harvest is
\* called and one ExperimentMetric PUT is submitted exactly when the cycle of
\* the cursor is in the cycles of the file; nothing is submitted otherwise;
\* the cursor is moved once per iteration, after the last file; and whatever
\* the PUT gives, the loop goes on with the next file.
C25_HarvestPutsMatchingFilesOnly ==
    [][(harvest.pc = "files" /\ harvest' # harvest) =>
          IF harvest.file <= Len(harvest.hv_files)
          THEN /\ harvest'.date_range = harvest.date_range
               /\ harvest'.loop_count = harvest.loop_count
               /\ harvest'.file = harvest.file + 1
               /\ harvest'.pc = "files"
               /\ Len(harvest'.log) = Len(harvest.log) + 1
               /\ harvest'.log[Len(harvest'.log)].harvested =
                      (((harvest.date_range.current % 24) * 3600) \in
                           harvest.hv_files[harvest.file].cycles)
               /\ (harvest'.log[Len(harvest'.log)].returned # "") =
                      harvest'.log[Len(harvest'.log)].harvested
               /\ IF harvest'.log[Len(harvest'.log)].harvested
                  THEN /\ last'.op = "expt_metrics"
                       /\ last'.request.method = HTTP_PUT
                       /\ harvest'.log[Len(harvest'.log)].returned = last'.returned
                  ELSE UNCHANGED <<last, expt_metrics>>
          ELSE /\ harvest'.date_range.current = harvest.date_range.current + 6
               /\ harvest'.loop_count = harvest.loop_count + 1
               /\ harvest'.log = harvest.log
               /\ UNCHANGED <<last, expt_metrics>>]_vars

\* A harvest of two iterations is done: it passed over a file in one cycle,
\* and a PUT of harvested rows that failed was followed by another file.
C25_Witness ==
    /\ harvest.pc = "done"
    /\ harvest.loop_count = 2
    /\ \E i \in DOMAIN harvest.log : ~harvest.log[i].matched
    /\ \E i, j \in DOMAIN harvest.log :
           /\ i < j
           /\ harvest.log[i].harvested
           /\ harvest.log[i].returned = "DbActionResponse"
    /\ last.returned = "DbActionResponse" /\ ~last.success

\* C23: there is no way to delete.  Over every sequence of GET and PUT
\* requests on regions, metric types, experiments and experiment metrics and
\* of harvest runs, every id a table holds before a step is an id it holds
\* after it.
C23_RowIdsOnlyGrow ==
    [][/\ {row.id : row \in regions} \subseteq {row.id : row \in regions'}
       /\ {row.id : row \in experiments} \subseteq {row.id : row \in experiments'}
       /\ {row.id : row \in metric_types} \subseteq {row.id : row \in metric_types'}
       /\ {row.id : row \in expt_metrics} \subseteq
              {row.id : row \in expt_metrics'}]_vars

\* Every table holds rows, a PUT of a metric type that is stored has
\* updated its row, and a harvest run is done.
C23_Witness ==
    /\ regions # {} /\ experiments # {} /\ expt_metrics # {}
    /\ \E row \in metric_types : row.updated_at # PyNone
    /\ harvest.pc = "done"
    /\ \E i \in DOMAIN harvest.log : harvest.log[i].harvested

\* C27: the records of an ExperimentMetric GET are in the order
\* params.ordering asks for.  For the ordering by time_valid, descending:
\* no record comes before one of a later valid time.
C27_RecordsKeepRequestedOrder ==
    (/\ last.op = "expt_metrics"
     /\ last.returned = "DbActionResponse"
     /\ last.success
     /\ "params" \in DOMAIN last.request
     /\ "ordering" \in DOMAIN last.request.params
     /\ last.request.params.ordering = OrderingBy("time_valid", DESCENDING)
     /\ last.details.record_count > 0)
        => \A i, j \in DOMAIN last.details.records :
               i < j => last.details.records[i].time_valid >=
                            last.details.records[j].time_valid

\* C26: the last write wins.  After an ExperimentMetric PUT of a metric
\* whose key a stored row holds with another value (the experiment, the
\* region and the metric type are stored and the database runs the insert),
\* an ExperimentMetric GET of the metrics of the experiment that follows it
\* returns a record of that key with the value of the PUT.
C26_LaterPutWinsOnGet ==
    [][(/\ last.op = "expt_metrics"
        /\ last.request.method = HTTP_PUT
        /\ last.phase = "submit"
        /\ PutResolves(last.request)
        /\ arg.dbOk
        /\ last'.op = "expt_metrics"
        /\ last'.request = [method |-> HTTP_GET,
                            params |-> [filters |-> [experiment |-> <<>>]]]
        /\ last'.returned = "DbActionResponse"
        /\ last'.success) =>
           \A i \in DOMAIN last.request.body.metrics.v :
               (\E row \in expt_metrics :
                    /\ MetricMatches(row, last.request.body.metrics.v[i],
                                     last.request.body)
                    /\ row.value # last.request.body.metrics.v[i].value) =>
                   /\ last'.details.record_count > 0
                   /\ \E k \in DOMAIN last'.details.records :
                          /\ last'.details.records[k].region =
                                 last.request.body.metrics.v[i].region_name
                          /\ last'.details.records[k].name =
                                 last.request.body.metrics.v[i].name
                          /\ last'.details.records[k].time_valid =
                                 last.request.body.metrics.v[i].time_valid
                          /\ last'.details.records[k].value =
                                 last.request.body.metrics.v[i].value]_vars

\* C28: an Experiment GET with a filter on platform returns a response, and
\* every record of it satisfies the filter: its platform is the one asked
\* for.
C28_ExperimentGetAppliesEveryFilter ==
    (/\ last.op = "experiment"
     /\ last.request.method = HTTP_GET
     /\ "params" \in DOMAIN last.request
     /\ "filters" \in DOMAIN last.request.params
     /\ "platform" \in DOMAIN last.request.params.filters) =>
        /\ last.returned = "DbActionResponse"
        /\ last.success
        /\ last.details.record_count > 0 =>
               \A record \in last.details.records :
                   record.platform = last.request.params.filters.platform.exact

\* C29: an ExperimentMetric PUT whose experiment, region names and metric
\* type names are stored, on a database that runs the insert, succeeds and
\* stores one row per metric of the body, also when two regions of one name
\* are stored; every row it stores is of a region and a metric type of the
\* names a metric of the body gives.
C29_ResolvedPutStoresEveryMetric ==
    [][(/\ last'.op = "expt_metrics"
        /\ last'.request.method = HTTP_PUT
        /\ last'.phase = "submit"
        /\ PutResolves(last'.request)
        /\ arg'.dbOk) =>
           /\ last'.returned = "DbActionResponse"
           /\ last'.success
           /\ expt_metrics \subseteq expt_metrics'
           /\ Cardinality(expt_metrics' \ expt_metrics) =
                  Len(last'.request.body.metrics.v)
           /\ \A row \in expt_metrics' \ expt_metrics :
                  \E i \in DOMAIN last'.request.body.metrics.v :
                      MetricMatches(row, last'.request.body.metrics.v[i],
                                    last'.request.body)]_vars

\* C30: under every interleaving of the steps of Region PUTs that run at
\* the same time, once every request has returned, each region of each
\* request is stored exactly once.
C30_ConcurrentRegionPutsStoreOnce ==
    (\A p \in Callers : sessions[p].pc = "done") =>
        \A p \in Callers :
            \A region \in DOMAIN Val(RegionRequestInit(sessions[p].request).value.regions) :
                Cardinality({row \in regions :
                    row.name = region.name /\ row.bounds = region.grid}) = 1

====
